---------------------------- MODULE Spec2Model ----------------------------
(***************************************************************************)
(* A model of NodeDB: the in-memory graph (database.py), the query         *)
(* tokenizer and parser (query.py), the AST evaluator (database.py) and    *)
(* the type-registry codec (jpickle_ex.py).                                *)
(*                                                                         *)
(* Python strings are modelled as sequences of one-character strings, so   *)
(* that prefixes, slices and character classes can be computed.            *)
(***************************************************************************)
EXTENDS Integers, Sequences, FiniteSets, TLC

VARIABLES
    nodes,      \* Graph.nodes: a list of node objects (references into NodePool)
    edges,      \* Graph.edges: a list of Edge records
    last,       \* the operation that ran last, with its arguments and result
    okEdges,    \* history: every add_edge so far had both endpoints in nodes
    input,      \* the argument of the call a behaviour makes on a fixed graph
    qres,       \* <<>>, or what the calls made so far did, one entry per call
    mode,       \* which part of the program the behaviour exercises
    parent      \* node.parent of the node objects of the graph operations

vars == <<nodes, edges, last, okEdges, input, qres, mode, parent>>

(***************************************************************************)
(* Bounds of the model.                                                    *)
(***************************************************************************)
MaxNodes == 3
MaxEdges == 2
MaxQueryLen == 4    \* every query text up to this length is tried
MaxChain == 4       \* the longest chain of matches joined by operators

(***************************************************************************)
(* Generic helpers.                                                        *)
(***************************************************************************)
\* Python's None, where a str is expected: no string of characters equals it
NoneStr == <<"None">>

\* Python's None, where a node is expected (node objects are numbered from 1)
NoNode == 0

\* Python's None, where an id (a str or a UUID) is expected
NoneId == [kind |-> "none", text |-> <<>>]

Range(s) == {s[i] : i \in 1..Len(s)}

\* the sequences over S of length n or less
RECURSIVE SeqsUpTo(_, _)
SeqsUpTo(S, n) ==
    IF n = 0 THEN {<<>>}
    ELSE SeqsUpTo(S, n - 1)
         \cup {Append(s, x) : s \in {t \in SeqsUpTo(S, n - 1) : Len(t) = n - 1}, x \in S}

\* Python's s[a:b] on a 0-based string, 0 <= a
Slice(s, a, b) == SubSeq(s, a + 1, IF b < Len(s) THEN b ELSE Len(s))

(***************************************************************************)
(* utils.generate_name_alias(name, min_length=3, max_length=3)             *)
(***************************************************************************)
ALIAS_MIN_LENGTH == 3
ALIAS_MAX_LENGTH == 3

\* str.lower(), on the characters the model uses
LowerChar(c) ==
    CASE c = "A" -> "a" [] c = "B" -> "b" [] c = "R" -> "r" [] c = "O" -> "o"
      [] OTHER -> c

Lower(s) == [i \in 1..Len(s) |-> LowerChar(s[i])]

\* str.split(sep): the pieces of s between occurrences of sep
RECURSIVE SplitAcc(_, _, _)
SplitAcc(s, sep, cur) ==
    IF s = <<>> THEN <<cur>>
    ELSE IF Head(s) = sep THEN <<cur>> \o SplitAcc(Tail(s), sep, <<>>)
         ELSE SplitAcc(Tail(s), sep, Append(cur, Head(s)))

Split(s, sep) == SplitAcc(s, sep, <<>>)

\* ''.join(word[0] for word in words if word)
RECURSIVE Initials(_)
Initials(words) ==
    IF words = <<>> THEN <<>>
    ELSE IF Head(words) = <<>> THEN Initials(Tail(words))
         ELSE <<Head(Head(words))>> \o Initials(Tail(words))

\* the inner while loop: alias += word[i] while len(alias) < min_length
RECURSIVE PadFromWord(_, _, _)
PadFromWord(alias, word, i) ==
    IF Len(alias) < ALIAS_MIN_LENGTH /\ i < Len(word)
    THEN PadFromWord(Append(alias, word[i + 1]), word, i + 1)
    ELSE alias

\* for word in words: (inner loop)
RECURSIVE PadFromWords(_, _)
PadFromWords(alias, words) ==
    IF words = <<>> THEN alias
    ELSE PadFromWords(PadFromWord(alias, Head(words), 1), Tail(words))

generate_name_alias(name) ==
    LET lname == Lower(name)
        words == IF "_" \in Range(lname) THEN Split(lname, "_")
                 ELSE IF " " \in Range(lname) THEN Split(lname, " ")
                 ELSE <<lname>>
        alias == Initials(words)
        padded == IF Len(alias) < ALIAS_MIN_LENGTH
                  THEN PadFromWords(alias, words) ELSE alias
    IN Slice(padded, 0, ALIAS_MAX_LENGTH)

(***************************************************************************)
(* base_models.Node.__init__(name, alias=None, id=None).                   *)
(* An id is a record [kind, text]: kind "str" for a Python str, kind       *)
(* "uuid" for a uuid.UUID object whose textual form is text.  The id       *)
(* argument is None, a str or a UUID; fresh is the text of the UUID that   *)
(* uuid4() would return.                                                   *)
(***************************************************************************)
StrId(text) == [kind |-> "str", text |-> text]
UuidId(text) == [kind |-> "uuid", text |-> text]

NodeInit(name, alias, id, fresh) ==
    [name   |-> name,
     alias  |-> IF alias = NoneStr \/ alias = <<>> THEN generate_name_alias(name)
                ELSE alias,
     id     |-> IF id.kind = "str" /\ id.text # <<>> THEN id ELSE UuidId(fresh),
     parent |-> NoNode,
     extra  |-> <<>>]

\* node.<field> = value, for a field that a subtype of Node adds
SetAttr(node, field, value) ==
    [node EXCEPT !.extra = Append(@, [field |-> field, value |-> value])]

\* str(node.id)
IdText(id) == id.text

(***************************************************************************)
(* The node objects the caller has created.  A node is referred to by its  *)
(* index in NodePool: Node defines no __eq__, so == on nodes is identity.  *)
(* Objects 1 and 2 were given the same id string.  Objects 4 to 6 are the  *)
(* nodes named RepoA, RepoB and Other; 4 and 5 are of a subtype with a     *)
(* field "a".  Objects 7 and 8 were given ids of which one is a prefix of  *)
(* the other.  The short id texts stand for the texts of UUIDs.            *)
(***************************************************************************)
NodePool ==
    << NodeInit(<<"a">>, NoneStr, StrId(<<"a">>), <<"z">>),
       NodeInit(<<"a", "b">>, <<"b">>, StrId(<<"a">>), <<"z">>),
       NodeInit(<<"b">>, NoneStr, NoneId, <<"b">>),
       SetAttr(NodeInit(<<"R", "e", "p", "o", "A">>, NoneStr, NoneId, <<"c">>),
               <<"a">>, <<"a", "1">>),
       SetAttr(NodeInit(<<"R", "e", "p", "o", "B">>, NoneStr, NoneId, <<"d">>),
               <<"a">>, <<"1">>),
       NodeInit(<<"O", "t", "h", "e", "r">>, NoneStr, NoneId, <<"e">>),
       NodeInit(<<"a", "b">>, <<"a", "b", "c">>, StrId(<<"a", "b", "c">>), <<"z">>),
       NodeInit(<<"b", "a">>, <<"a", "b">>, StrId(<<"a", "b">>), <<"z">>) >>

\* the nodes the graph operations are exercised with
Objs == {1, 2, 3}

\* base_models.Edge.__init__(name, node_a, node_b)
EdgeInit(name, a, b) == [name |-> name, node_a |-> a, node_b |-> b]

(***************************************************************************)
(* Creating a node: the arguments of Node(name, alias, id) and the UUID    *)
(* that uuid4() would return are drawn, and the step is the call.          *)
(***************************************************************************)
CreateInit ==
    /\ mode = "create"
    /\ nodes = <<>>
    /\ edges = <<>>
    /\ last = [op |-> "init", node |-> 0, present |-> FALSE, nedges |-> 0,
               nnodes |-> 0]
    /\ parent = [o \in Objs |-> NoNode]
    /\ okEdges = TRUE
    /\ input \in [name : {<<"a">>, <<"a", "b">>, <<"a", " ", "b">>},
                 alias : {NoneStr, <<>>, <<"b">>},
                 \* id: None, "", two strs (they stand for texts of UUID
                 \* form, which UUID(id) accepts) and two UUID objects
                 id : {NoneId, StrId(<<>>), StrId(<<"a">>), StrId(<<"a", "b">>),
                       UuidId(<<"c">>), UuidId(<<"d">>)},
                 fresh : {<<"e">>, <<"f">>}]
    /\ qres = <<>>

\* Node(name, alias, id)
CreateNode ==
    /\ mode = "create"
    /\ qres = <<>>
    /\ qres' = <<NodeInit(input.name, input.alias, input.id, input.fresh)>>
    /\ UNCHANGED <<nodes, edges, last, okEdges, input, mode, parent>>

SpecCreate == CreateInit /\ [][CreateNode]_vars

(***************************************************************************)
(* database.Graph                                                          *)
(***************************************************************************)
\* Graph.get_node_by_id: the first node whose str(id) equals str(node_id)
RECURSIVE FirstWithIdText(_, _)
FirstWithIdText(ns, text) ==
    IF ns = <<>> THEN NoNode
    ELSE IF IdText(NodePool[Head(ns)].id) = text THEN Head(ns)
         ELSE FirstWithIdText(Tail(ns), text)

get_node_by_id(ns, node_id) == FirstWithIdText(ns, IdText(node_id))

\* A remove_node that prunes only the edges leaving the node
RECURSIVE RemoveNodeEdges_OnlyOutgoing(_, _)
RemoveNodeEdges_OnlyOutgoing(es, n) ==
    IF es = <<>> THEN <<>>
    ELSE IF Head(es).node_a # n
         THEN <<Head(es)>> \o RemoveNodeEdges_OnlyOutgoing(Tail(es), n)
         ELSE RemoveNodeEdges_OnlyOutgoing(Tail(es), n)

\* Graph.remove_node, first statement: the edges that stay
\* [e for e in self.edges if e.node_a != node and e.node_b != node]
RECURSIVE RemoveNodeEdges(_, _)
RemoveNodeEdges(es, n) ==
    IF es = <<>> THEN <<>>
    ELSE IF Head(es).node_a # n /\ Head(es).node_b # n
         THEN <<Head(es)>> \o RemoveNodeEdges(Tail(es), n)
         ELSE RemoveNodeEdges(Tail(es), n)

\* A remove_node that drops only the first occurrence (list.remove)
RECURSIVE RemoveNodeNodes_FirstOnly(_, _)
RemoveNodeNodes_FirstOnly(ns, n) ==
    IF ns = <<>> THEN <<>>
    ELSE IF Head(ns) # n
         THEN <<Head(ns)>> \o RemoveNodeNodes_FirstOnly(Tail(ns), n)
         ELSE Tail(ns)

\* Graph.remove_node, second statement: the nodes that stay
\* [n for n in self.nodes if n != node]
RECURSIVE RemoveNodeNodes(_, _)
RemoveNodeNodes(ns, n) ==
    IF ns = <<>> THEN <<>>
    ELSE IF Head(ns) # n THEN <<Head(ns)>> \o RemoveNodeNodes(Tail(ns), n)
         ELSE RemoveNodeNodes(Tail(ns), n)

\* Graph.add_node(node): append, no dedup
add_node(n) ==
    /\ mode = "graph"
    /\ Len(nodes) < MaxNodes
    /\ nodes' = Append(nodes, n)
    /\ last' = [op |-> "add_node", node |-> n, present |-> n \in Range(nodes),
                nedges |-> Len(edges), nnodes |-> Len(nodes)]
    /\ UNCHANGED <<edges, okEdges, input, qres, mode, parent>>

\* Graph.add_edge(edge): append, no check of the endpoints
add_edge(name, a, b) ==
    /\ mode = "graph"
    /\ Len(edges) < MaxEdges
    /\ edges' = Append(edges, EdgeInit(name, a, b))
    /\ okEdges' = (okEdges /\ a \in Range(nodes) /\ b \in Range(nodes))
    /\ last' = [op |-> "add_edge", node |-> a, present |-> a \in Range(nodes),
                nedges |-> Len(edges), nnodes |-> Len(nodes)]
    /\ UNCHANGED <<nodes, input, qres, mode, parent>>

\* A remove_node that also clears the parent reference of the children
remove_node_ClearsParent(n) ==
    /\ mode = "graph"
    /\ edges' = RemoveNodeEdges(edges, n)
    /\ nodes' = RemoveNodeNodes(nodes, n)
    /\ parent' = [c \in Objs |-> IF parent[c] = n THEN NoNode ELSE parent[c]]
    /\ last' = [op |-> "remove_node", node |-> n, present |-> n \in Range(nodes),
                nedges |-> Len(edges), nnodes |-> Len(nodes)]
    /\ UNCHANGED <<okEdges, input, qres, mode>>

\* Graph.remove_node(node): the node objects are left as they are
remove_node(n) ==
    /\ mode = "graph"
    /\ edges' = RemoveNodeEdges(edges, n)
    /\ nodes' = RemoveNodeNodes(nodes, n)
    /\ last' = [op |-> "remove_node", node |-> n, present |-> n \in Range(nodes),
                nedges |-> Len(edges), nnodes |-> Len(nodes)]
    /\ UNCHANGED <<okEdges, input, qres, mode, parent>>

\* Graph.__init__: both collections empty
GraphInit ==
    /\ mode = "graph"
    /\ nodes = <<>>
    /\ edges = <<>>
    /\ last = [op |-> "init", node |-> 0, present |-> FALSE, nedges |-> 0,
               nnodes |-> 0]
    \* node.parent as the caller set it: None everywhere, or 1 the parent of
    \* 2 and 2 the parent of 3
    /\ parent \in {[o \in Objs |-> NoNode],
                   [o \in Objs |-> IF o = 2 THEN 1 ELSE IF o = 3 THEN 2 ELSE NoNode]}
    /\ okEdges = TRUE
    /\ input = <<>>
    /\ qres = <<>>

GraphNext ==
    \/ \E n \in Objs : add_node(n)
    \/ \E name \in {"rel"}, a \in Objs, b \in Objs : add_edge(name, a, b)
    \/ \E n \in Objs : remove_node(n)

Spec == GraphInit /\ [][GraphNext]_vars

(***************************************************************************)
(* query.py: the tokenizer.                                                *)
(*                                                                         *)
(* A token is [kind, value]; positions are Python's 0-based offsets, so    *)
(* the character at offset pos is q[pos + 1].  An outcome of the tokenizer *)
(* or parser carries the exception it raised, exc = "none" when it         *)
(* returned.                                                               *)
(***************************************************************************)
Letters == {"a", "b", "c", "d", "e", "m", "n", "o", "p", "R", "A", "B", "O",
            "t", "h", "r", "_"}
Digits == {"1", "2", "3"}
Spaces == {" "}

Tok(kind, value) == [kind |-> kind, value |-> value]
NoTok == Tok("NONE", <<>>)

NoExc == [exc |-> "none", msg |-> "", tok |-> NoTok, pos |-> -1]
Raise(exc, msg, tok, pos) == [exc |-> exc, msg |-> msg, tok |-> tok, pos |-> pos]

CharAt(q, pos) == IF pos < Len(q) THEN q[pos + 1] ELSE "EOF"

\* the end of the longest run of characters of the set cs that starts at pos
RECURSIVE RunEnd(_, _, _)
RunEnd(q, pos, cs) ==
    IF pos < Len(q) /\ q[pos + 1] \in cs THEN RunEnd(q, pos + 1, cs) ELSE pos

\* the offset of the first ")" at or after pos, Len(q) if there is none
RECURSIVE FirstClose(_, _)
FirstClose(q, pos) ==
    IF pos >= Len(q) THEN Len(q)
    ELSE IF q[pos + 1] = ")" THEN pos ELSE FirstClose(q, pos + 1)

\* LITERAL, the alternative \([^\)]+\) at pos, where close is the offset of
\* the first ")" after pos + 1: the end of the group, pos when it does not
\* match
GroupEnd(q, pos, close) ==
    IF CharAt(q, pos + 1) \notin {")", "EOF"} /\ close < Len(q) THEN close + 1
    ELSE pos

RECURSIVE LiteralEnd(_, _)

\* LITERAL, after the attempt to match a group at pos ended at g
LiteralAfterGroup(q, pos, g) == IF g > pos THEN LiteralEnd(q, g) ELSE pos

\* LITERAL: (?:[^&|()]+|\([^\)]+\))+ matched at pos; the end of the match,
\* pos itself when no iteration matches
LiteralEnd(q, pos) ==
    IF CharAt(q, pos) = "EOF" THEN pos
    ELSE IF CharAt(q, pos) \notin {"&", "|", "(", ")"} THEN LiteralEnd(q, pos + 1)
    ELSE IF CharAt(q, pos) = "("
         THEN LiteralAfterGroup(q, pos, GroupEnd(q, pos, FirstClose(q, pos + 1)))
    ELSE pos

TokenAt(kind, end) == [kind |-> kind, end |-> end]

\* the LITERAL alternative of token_re, whose match at pos ends at end
LiteralToken(pos, end) ==
    IF end > pos THEN TokenAt("LITERAL", end) ELSE TokenAt("NOMATCH", pos)

\* token_re.match(query, pos): the first alternative of TOKEN_REGEX that
\* matches at pos, as [kind, end]; kind "NOMATCH" when none does
TokenMatch(q, pos) ==
    LET c == CharAt(q, pos)
        c2 == CharAt(q, pos + 1)
    IN  IF c = "EOF" THEN TokenAt("NOMATCH", pos)
        ELSE IF c \in Spaces THEN TokenAt("SKIP", RunEnd(q, pos, Spaces))
        ELSE IF c = "|" /\ c2 = "|" THEN TokenAt("OR", pos + 2)
        ELSE IF c = "&" THEN TokenAt("AND", pos + 1)
        ELSE IF c = "!" /\ c2 = "=" THEN TokenAt("NEQ", pos + 2)
        ELSE IF c = "=" THEN TokenAt("EQ", pos + 1)
        ELSE IF c = "(" THEN TokenAt("LPAREN", pos + 1)
        ELSE IF c = ")" THEN TokenAt("RPAREN", pos + 1)
        ELSE IF c \in Letters
             THEN TokenAt("IDENT", RunEnd(q, pos, Letters \cup Digits))
        ELSE LiteralToken(pos, LiteralEnd(q, pos))

\* A capture that stops at the first "&", "||" or ")" whatever the depth
RECURSIVE RhsEnd_NoDepth(_, _, _)
RhsEnd_NoDepth(q, pos, depth) ==
    IF pos >= Len(q) THEN pos
    ELSE IF q[pos + 1] \in {"&", ")"} THEN pos
    ELSE IF q[pos + 1] = "|" /\ CharAt(q, pos + 1) = "|" THEN pos
    ELSE RhsEnd_NoDepth(q, pos + 1, depth)

\* the raw capture of a right-hand side (query.py lines 43-56): the offset
\* at which the loop stops
RECURSIVE RhsEnd(_, _, _)
RhsEnd(q, pos, depth) ==
    IF pos >= Len(q) THEN pos
    ELSE LET char == q[pos + 1] IN
         IF char = "(" THEN RhsEnd(q, pos + 1, depth + 1)
         ELSE IF char = ")"
              THEN IF depth = 0 THEN pos ELSE RhsEnd(q, pos + 1, depth - 1)
         ELSE IF char = "|" /\ CharAt(q, pos + 1) = "|" /\ depth = 0 THEN pos
         ELSE IF char = "&" /\ depth = 0 THEN pos
         ELSE RhsEnd(q, pos + 1, depth)

\* str.strip()
RECURSIVE LStrip(_)
LStrip(s) == IF s # <<>> /\ Head(s) \in Spaces THEN LStrip(Tail(s)) ELSE s

RECURSIVE RStrip(_)
RStrip(s) ==
    IF s # <<>> /\ s[Len(s)] \in Spaces THEN RStrip(SubSeq(s, 1, Len(s) - 1))
    ELSE s

Strip(s) == RStrip(LStrip(s))

RECURSIVE TokenizeFrom(_, _, _)

\* lines 57-61: the three tokens of a match, then on from the terminator
TokenizeRhs(q, tokens, field, op, rhs_start, stop) ==
    TokenizeFrom(q, stop,
                 tokens \o <<field, op, Tok("LITERAL", Strip(Slice(q, rhs_start, stop)))>>)

\* lines 35-64 for an IDENT match: the lookahead decides
TokenizeIdent(q, pos, tokens, match, lookahead) ==
    IF lookahead.kind \in {"EQ", "NEQ"}
    THEN TokenizeRhs(q, tokens, Tok("IDENT", Slice(q, pos, match.end)),
                     Tok(lookahead.kind, Slice(q, match.end, lookahead.end)),
                     lookahead.end, RhsEnd(q, lookahead.end, 0))
    ELSE TokenizeFrom(q, match.end,
                      Append(tokens, Tok("IDENT", Slice(q, pos, match.end))))

\* one iteration of the while loop, given the match at pos
TokenizeStep(q, pos, tokens, match) ==
    IF match.kind = "NOMATCH"
    THEN [out |-> Raise("SyntaxError", "Unexpected character", NoTok, pos),
          tokens |-> tokens]
    ELSE IF match.kind = "SKIP" THEN TokenizeFrom(q, match.end, tokens)
    ELSE IF match.kind = "IDENT"
         THEN TokenizeIdent(q, pos, tokens, match, TokenMatch(q, match.end))
    ELSE TokenizeFrom(q, match.end,
                      Append(tokens, Tok(match.kind, Slice(q, pos, match.end))))

\* the while loop of smart_tokenize, from offset pos with the tokens so far
TokenizeFrom(q, pos, tokens) ==
    IF pos >= Len(q) THEN [out |-> NoExc, tokens |-> tokens]
    ELSE TokenizeStep(q, pos, tokens, TokenMatch(q, pos))

smart_tokenize(q) == TokenizeFrom(q, 0, <<>>)

(***************************************************************************)
(* query.py: the parser.  An AST is a tuple, as in the code:               *)
(* <<"MATCH", field, op, pattern>>, <<"and", left, right>> or              *)
(* <<"or", left, right>>.  A parse result is [out, ast, i]: the exception  *)
(* raised (if any), the AST and the index of the next token (0-based).     *)
(***************************************************************************)
Parsed(ast, i) == [out |-> NoExc, ast |-> ast, i |-> i]
ParseError(out) == [out |-> out, ast |-> <<>>, i |-> -1]

Failed(r) == r.out.exc # "none"

\* tokens[i] with Python's 0-based index
At(tokens, i) == tokens[i + 1]

\* the while loop of parse_match: the index of the first AND, OR or RPAREN
\* token at or after j
RECURSIVE PatternEnd(_, _)
PatternEnd(tokens, j) ==
    IF j < Len(tokens) /\ At(tokens, j).kind \notin {"AND", "OR", "RPAREN"}
    THEN PatternEnd(tokens, j + 1)
    ELSE j

\* "".join(pattern_parts) for the tokens from..to-1
RECURSIVE JoinValues(_, _, _)
JoinValues(tokens, from, to) ==
    IF from >= to THEN <<>>
    ELSE At(tokens, from).value \o JoinValues(tokens, from + 1, to)

\* parse_match, lines 81-82: the MATCH node of tokens i..j-1
MatchNode(tokens, i, j) ==
    Parsed(<<"MATCH", At(tokens, i).value, At(tokens, i + 1).value,
             Strip(JoinValues(tokens, i + 2, j))>>, j)

\* parse_match(tokens, i)
parse_match(tokens, i) ==
    IF At(tokens, i).kind # "IDENT"
    THEN ParseError(Raise("SyntaxError", "Expected field name", At(tokens, i), i))
    ELSE IF i + 1 >= Len(tokens)
         THEN ParseError(Raise("IndexError", "list index out of range", NoTok, -1))
    ELSE IF At(tokens, i + 1).kind \notin {"EQ", "NEQ"}
         THEN ParseError(Raise("SyntaxError", "Expected = or !=", NoTok, -1))
    ELSE MatchNode(tokens, i, PatternEnd(tokens, i + 2))

\* {"OR": 1, "AND": 2}
Prec(kind) == IF kind = "OR" THEN 1 ELSE 2

\* tok[0].lower()
OpTag(kind) == IF kind = "OR" THEN "or" ELSE "and"

RECURSIVE parse_expr(_, _)
RECURSIVE parse_binop(_, _, _, _)
RECURSIVE TighterOps(_, _, _, _)

\* parse_atom, lines 94-99: after the expression r inside a parenthesis
CloseParen(tokens, r) ==
    IF Failed(r) THEN r
    ELSE IF r.i >= Len(tokens)
         THEN ParseError(Raise("SyntaxError", "Unclosed parenthesis", NoTok, -1))
    ELSE IF At(tokens, r.i).kind # "RPAREN"
         THEN ParseError(Raise("SyntaxError", "Expected )", At(tokens, r.i), r.i))
    ELSE Parsed(r.ast, r.i + 1)

\* parse_expr.parse_atom(tokens, i)
parse_atom(tokens, i) ==
    IF i >= Len(tokens)
    THEN ParseError(Raise("SyntaxError", "Unexpected end of input", NoTok, -1))
    ELSE IF At(tokens, i).kind = "LPAREN"
         THEN CloseParen(tokens, parse_expr(tokens, i + 1))
    ELSE IF At(tokens, i).kind = "IDENT" THEN parse_match(tokens, i)
    ELSE ParseError(Raise("SyntaxError", "Unexpected token", At(tokens, i), i))

\* line 133: right, i = parse_binop(...) has returned r; the loop goes on
TighterNext(curr_prec, tokens, r) ==
    IF Failed(r) THEN r ELSE TighterOps(curr_prec, r.ast, tokens, r.i)

\* the inner while loop of parse_binop ("Check for more tightly bound ops")
TighterOps(curr_prec, right, tokens, i) ==
    IF i < Len(tokens) /\ At(tokens, i).kind \in {"AND", "OR"}
       /\ Prec(At(tokens, i).kind) > curr_prec
    THEN TighterNext(curr_prec, tokens,
                     parse_binop(Prec(At(tokens, i).kind), right, tokens, i))
    ELSE Parsed(right, i)

\* line 139: left = (op, left, right), and the outer loop goes on
BinopJoin(precedence, left, tokens, kind, r) ==
    IF Failed(r) THEN r
    ELSE parse_binop(precedence, <<OpTag(kind), left, r.ast>>, tokens, r.i)

\* lines 126-137: the atom a after the operator, then the tighter operators
BinopRight(precedence, left, tokens, kind, a) ==
    IF Failed(a) THEN a
    ELSE BinopJoin(precedence, left, tokens, kind,
                   TighterOps(Prec(kind), a.ast, tokens, a.i))

\* parse_expr.parse_binop(precedence, left, tokens, i)
parse_binop(precedence, left, tokens, i) ==
    IF i >= Len(tokens) THEN Parsed(left, i)
    ELSE IF At(tokens, i).kind = "RPAREN" THEN Parsed(left, i)
    ELSE IF At(tokens, i).kind \notin {"AND", "OR"} THEN Parsed(left, i)
    ELSE IF Prec(At(tokens, i).kind) < precedence THEN Parsed(left, i)
    ELSE IF i + 1 >= Len(tokens)
         THEN ParseError(Raise("SyntaxError", "Operator must be followed",
                               NoTok, -1))
    ELSE BinopRight(precedence, left, tokens, At(tokens, i).kind,
                    parse_atom(tokens, i + 1))

\* parse_expr, line 145: after the first atom a
ExprAfterAtom(tokens, a) ==
    IF Failed(a) THEN a ELSE parse_binop(0, a.ast, tokens, a.i)

\* parse_expr(tokens, i)
parse_expr(tokens, i) == ExprAfterAtom(tokens, parse_atom(tokens, i))

(***************************************************************************)
(* Python's re.search(pattern, value), for the patterns the model reaches: *)
(* literal characters, ".", "^", "*" after an atom, groups "(...)" and     *)
(* alternation "|".  The pattern is parsed and matched in one pass: each   *)
(* operator takes the set S of offsets at which a match of the part before *)
(* it can end and returns [err, i, ends]: whether re.compile raises        *)
(* re.error, the index after the part, and the offsets at which a match    *)
(* can end after it.                                                       *)
(***************************************************************************)
ReErr == [err |-> TRUE, i |-> 0, ends |-> {}]
ReOk(i, ends) == [err |-> FALSE, i |-> i, ends |-> ends]

PatAt(p, i) == IF i <= Len(p) THEN p[i] ELSE "EOF"

RECURSIVE ReAlt(_, _, _, _)
RECURSIVE ReBranch(_, _, _, _)
RECURSIVE ReStar(_, _, _, _)

\* the ")" that must follow the alternation r of a group
ReGroupClose(p, r) ==
    IF r.err THEN r
    ELSE IF PatAt(p, r.i) # ")" THEN ReErr      \* missing ), unterminated
    ELSE ReOk(r.i + 1, r.ends)

\* atom := "(" alt ")" | "." | "^" | character
ReAtom(p, i, v, S) ==
    IF PatAt(p, i) = "(" THEN ReGroupClose(p, ReAlt(p, i + 1, v, S))
    ELSE IF PatAt(p, i) = "."
         THEN ReOk(i + 1, {j + 1 : j \in {k \in S : k < Len(v)}})
    ELSE IF PatAt(p, i) = "^" THEN ReOk(i + 1, S \cap {0})
    ELSE ReOk(i + 1, {j + 1 : j \in {k \in S : k < Len(v) /\ v[k + 1] = p[i]}})

ReStarNext(p, i, v, S, more) == IF more = S THEN S ELSE ReStar(p, i, v, more)

\* atom*: the offsets reachable by repeating the atom at index i
ReStar(p, i, v, S) == ReStarNext(p, i, v, S, S \cup ReAtom(p, i, v, S).ends)

\* what follows the atom a that starts at index i: "*" or the next atom
ReAfterAtom(p, i, v, S, a) ==
    IF a.err THEN a
    ELSE IF PatAt(p, a.i) = "*"
         THEN IF PatAt(p, i) = "^" \/ PatAt(p, a.i + 1) = "*"
              THEN ReErr                         \* nothing to / multiple repeat
              ELSE ReBranch(p, a.i + 1, v, ReStar(p, i, v, S))
    ELSE ReBranch(p, a.i, v, a.ends)

\* branch := (atom "*"?)*, up to "|", ")" or the end
ReBranch(p, i, v, S) ==
    IF PatAt(p, i) \in {"EOF", "|", ")"} THEN ReOk(i, S)
    ELSE IF PatAt(p, i) = "*" THEN ReErr          \* nothing to repeat
    ELSE ReAfterAtom(p, i, v, S, ReAtom(p, i, v, S))

ReUnion(b, r) == IF r.err THEN r ELSE ReOk(r.i, b.ends \cup r.ends)

\* what follows the branch b: "|" and the other branches, or nothing
ReAfterBranch(p, v, S, b) ==
    IF b.err THEN b
    ELSE IF PatAt(p, b.i) = "|" THEN ReUnion(b, ReAlt(p, b.i + 1, v, S))
    ELSE b

\* alt := branch ("|" branch)*
ReAlt(p, i, v, S) == ReAfterBranch(p, v, S, ReBranch(p, i, v, S))

ReTop(p, v) == ReAlt(p, 1, v, 0..Len(v))

\* re.compile(pattern) raises re.error, given the pass top over the pattern
ReInvalidTop(p, top) == top.err \/ top.i <= Len(p)

(***************************************************************************)
(* database.Graph: find_nodes_by_query and _evaluate_ast.                  *)
(***************************************************************************)
\* getattr(node, field, None), as a string; NoneStr when the attribute is
\* missing or None (parent and node_type are None on every pool object)
RECURSIVE ExtraAttr(_, _)
ExtraAttr(extra, field) ==
    IF extra = <<>> THEN NoneStr
    ELSE IF extra[Len(extra)].field = field THEN extra[Len(extra)].value
         ELSE ExtraAttr(SubSeq(extra, 1, Len(extra) - 1), field)

GetAttr(o, field) ==
    IF field = <<"n", "a", "m", "e">> THEN NodePool[o].name
    ELSE IF field = <<"a", "l", "i", "a", "s">> THEN NodePool[o].alias
    ELSE IF field = <<"i", "d">> THEN IdText(NodePool[o].id)
    ELSE ExtraAttr(NodePool[o].extra, field)

Value(b) == [out |-> NoExc, val |-> b]
EvalError(out) == [out |-> out, val |-> FALSE]

\* lines 208-216: re.search has made the pass top over pattern and value
EvalSearch(op, pattern, top) ==
    IF op \notin {<<"=">>, <<"!", "=">>}
    THEN EvalError(Raise("ValueError", "Unknown operator", NoTok, -1))
    ELSE IF ReInvalidTop(pattern, top)
         THEN EvalError(Raise("ValueError", "Invalid regex",
                              Tok("PATTERN", pattern), -1))
    ELSE IF op = <<"=">> THEN Value(top.ends # {})
    ELSE Value(top.ends = {})

\* a search that must match at the start of the value (re.match)
EvalMatchValue_Anchored(op, pattern, value) ==
    IF value = NoneStr THEN Value(FALSE)
    ELSE IF ReInvalidTop(pattern, ReTop(pattern, value))
         THEN EvalError(Raise("ValueError", "Invalid regex",
                              Tok("PATTERN", pattern), -1))
    ELSE IF op = <<"=">> THEN Value(ReAlt(pattern, 1, value, {0}).ends # {})
    ELSE Value(ReAlt(pattern, 1, value, {0}).ends = {})

\* lines 204-216: value is getattr(node, field, None)
EvalMatchValue(op, pattern, value) ==
    IF value = NoneStr THEN Value(FALSE)
    ELSE EvalSearch(op, pattern, ReTop(pattern, value))

\* _evaluate_ast, tag 'MATCH' (database.py lines 201-216)
EvalMatch(field, op, pattern, o) == EvalMatchValue(op, pattern, GetAttr(o, field))

\* an 'or'/'and' that skips the right operand when the left one decides
EvalBinary_ShortCircuit(tag, left, right) ==
    IF Failed(left) THEN left
    ELSE IF tag = "or" /\ left.val THEN left
    ELSE IF tag = "and" /\ ~left.val THEN left
    ELSE right

\* _evaluate_ast, tags 'or' and 'and': both operands have been evaluated,
\* the left one first (database.py lines 218-226)
EvalBinary(tag, left, right) ==
    IF Failed(left) THEN left
    ELSE IF Failed(right) THEN right
    ELSE IF tag = "or" THEN Value(left.val \/ right.val)
    ELSE Value(left.val /\ right.val)

\* Graph._evaluate_ast(ast, node)
RECURSIVE evaluate_ast(_, _)
evaluate_ast(ast, o) ==
    IF ast[1] = "MATCH" THEN EvalMatch(ast[2], ast[3], ast[4], o)
    ELSE IF ast[1] \in {"or", "and"}
         THEN EvalBinary(ast[1], evaluate_ast(ast[2], o), evaluate_ast(ast[3], o))
    ELSE Value(FALSE)

RECURSIVE FilterNodes(_, _, _)

\* one element of the list comprehension: r is _evaluate_ast(ast, ns[0])
FilterStep(ast, ns, kept, r) ==
    IF Failed(r) THEN [out |-> r.out, result |-> <<>>]
    ELSE FilterNodes(ast, Tail(ns), IF r.val THEN Append(kept, Head(ns)) ELSE kept)

\* [n for n in self.nodes if self._evaluate_ast(ast, n)]: the nodes kept so
\* far and the exception that ended the scan
FilterNodes(ast, ns, kept) ==
    IF ns = <<>> THEN [out |-> NoExc, result |-> kept]
    ELSE FilterStep(ast, ns, kept, evaluate_ast(ast, Head(ns)))

\* what the call did: the tokens t, the parse pr and the outcome f
FindOutcome(q, t, pr, f) ==
    [query |-> q, tokenized |-> ~Failed(t), tokens |-> t.tokens,
     parsed |-> ~Failed(pr), ast |-> pr.ast, i |-> pr.i,
     out |-> f.out, result |-> f.result]

\* lines 193-195: the check for trailing tokens, then the scan of the nodes
FindFilter(ns, q, t, pr) ==
    FindOutcome(q, t, pr,
        IF Failed(pr) THEN [out |-> pr.out, result |-> <<>>]
        ELSE IF pr.i # Len(t.tokens)
             THEN [out |-> Raise("SyntaxError", "Unexpected trailing tokens",
                                 At(t.tokens, pr.i), pr.i),
                   result |-> <<>>]
        ELSE FilterNodes(pr.ast, ns, <<>>))

\* line 192: ast, i = parse_expr(tokens)
FindParse(ns, q, t) ==
    FindFilter(ns, q, t, IF Failed(t) THEN ParseError(t.out) ELSE parse_expr(t.tokens, 0))

\* Graph.find_nodes_by_query(query): what the call did, as a record of the
\* tokens, the parse, and the exception raised or the list returned
find_nodes_by_query(ns, q) == FindParse(ns, q, smart_tokenize(q))

(***************************************************************************)
(* Running a query: the graph holds some of RepoA, RepoB, Other, the query *)
(* text is one of Queries, and the step is the call of                     *)
(* find_nodes_by_query.                                                    *)
(***************************************************************************)
QueryAlphabet == {" ", "a", "1", "=", "!", "&", "|", "(", ")"}

\* the chains  f1=1 op1 f2=1 op2 ...  with AND written "&" and OR "||"
ChainFields == <<"a", "b", "c", "d", "e", "m", "n", "o">>

OpSeqs == UNION {[1..k -> {"AND", "OR"}] : k \in 0..(MaxChain - 1)}

OpText(op) == IF op = "AND" THEN <<"&">> ELSE <<"|", "|">>

ChainMatch(k) == <<"MATCH", <<ChainFields[k]>>, <<"=">>, <<"1">>>>

RECURSIVE ChainTextFrom(_, _)
ChainTextFrom(ops, k) ==
    <<ChainFields[k], "=", "1">> \o
    (IF k > Len(ops) THEN <<>>
     ELSE <<" ">> \o OpText(ops[k]) \o <<" ">> \o ChainTextFrom(ops, k + 1))

ChainText(ops) == ChainTextFrom(ops, 1)

\* the query texts that the claims name
Q_AndDoubled == <<"a", "=", "1", " ", "&", "&", " ", "b", "=", "2">>
Q_AndSingle == <<"a", "=", "1", " ", "&", " ", "b", "=", "2">>
Q_OrAndDoubled ==
    <<"a", "=", "1", " ", "|", "|", " ", "b", "=", "2", " ", "&", "&", " ",
      "c", "=", "3">>
Q_OrAndSingle ==
    <<"a", "=", "1", " ", "|", "|", " ", "b", "=", "2", " ", "&", " ",
      "c", "=", "3">>
Q_NameRepo == <<"n", "a", "m", "e", "=", "^", "R", "e", "p", "o", ".", "*">>
Q_NameNotRepo == <<"n", "a", "m", "e", "!", "=", "^", "R", "e", "p", "o", ".", "*">>
Q_NameB == <<"n", "a", "m", "e", "=", "o", ".", "*", "B">>
Q_NameBadStar == <<"n", "a", "m", "e", "=", "*">>
Q_OrBadRight == <<"n", "a", "m", "e", "=", "R", " ", "|", "|", " ", "a", "=", "(">>
Q_AndBadRight == <<"n", "a", "m", "e", "=", "R", " ", "&", " ", "a", "=", "(">>
Q_Grouped ==
    <<"(", "a", "=", "1", " ", "|", "|", " ", "b", "=", "1", ")", " ", "&", " ",
      "n", "a", "m", "e", "=", "A">>
Q_ParenLiteral ==
    <<"a", "=", " ", "(", "1", "&", "a", "|", "|", "1", ")", " ", "&",
      "a", "!", "=", "1">>
Q_PipeLiteral ==
    <<"(", "a", "1", "!", "=", "1", " ", "(", "|", ")", "|", "1", " ", "|", "|",
      "a", "=", "=", ")">>
Q_UnclosedLiteral == <<"a", "=", "(", "1", "&", "a", "|", "|", "1">>

\* the query texts tried: every text over QueryAlphabet up to MaxQueryLen
\* characters, the chains and the examples
Queries ==
    SeqsUpTo(QueryAlphabet, MaxQueryLen)
    \cup {ChainText(ops) : ops \in OpSeqs}
    \cup {Q_AndDoubled, Q_AndSingle, Q_OrAndDoubled, Q_OrAndSingle, Q_NameRepo,
          Q_NameNotRepo, Q_NameB, Q_NameBadStar, Q_OrBadRight, Q_AndBadRight,
          Q_Grouped, Q_ParenLiteral, Q_PipeLiteral, Q_UnclosedLiteral}

\* the call of Graph.find_nodes_by_query(input)
RunQuery ==
    /\ mode = "query"
    /\ qres = <<>>
    /\ qres' = <<find_nodes_by_query(nodes, input)>>
    /\ UNCHANGED <<nodes, edges, last, okEdges, input, mode, parent>>

QueryInit ==
    /\ mode = "query"
    /\ nodes \in {<<>>, <<4, 5, 6>>, <<6>>, <<6, 5, 5>>}
    /\ edges = <<>>
    /\ last = [op |-> "init", node |-> 0, present |-> FALSE, nedges |-> 0,
               nnodes |-> 0]
    /\ parent = [o \in Objs |-> NoNode]
    /\ okEdges = TRUE
    /\ input \in Queries
    /\ qres = <<>>

QueryNext == RunQuery

SpecQuery == QueryInit /\ [][QueryNext]_vars

(***************************************************************************)
(* difflib.SequenceMatcher(None, a, b).ratio(), as the fraction            *)
(* [num, den] = 2 * M / T: M the total size of the matching blocks, T the  *)
(* total length.  Offsets are 0-based.                                     *)
(***************************************************************************)
\* the length of the common run of a from offset i and b from offset j
RECURSIVE RunLen(_, _, _, _, _, _)
RunLen(a, b, i, j, ahi, bhi) ==
    IF i < ahi /\ j < bhi /\ a[i + 1] = b[j + 1]
    THEN 1 + RunLen(a, b, i + 1, j + 1, ahi, bhi)
    ELSE 0

\* find_longest_match(alo, ahi, blo, bhi): the block <<i, j, k>> of maximal
\* size k, of those the one that starts earliest in a, then earliest in b
find_longest_match(a, b, alo, ahi, blo, bhi) ==
    IF alo >= ahi \/ blo >= bhi THEN <<alo, blo, 0>>
    ELSE LET S == {<<i, j, RunLen(a, b, i, j, ahi, bhi)>> :
                       i \in alo..(ahi - 1), j \in blo..(bhi - 1)}
         IN CHOOSE x \in S : \A y \in S :
                \/ x[3] > y[3]
                \/ x[3] = y[3] /\ x[1] < y[1]
                \/ x[3] = y[3] /\ x[1] = y[1] /\ x[2] <= y[2]

RECURSIVE MatchedSize(_, _, _, _, _, _)

\* get_matching_blocks: the block m, then the blocks left and right of it
MatchedAround(a, b, alo, ahi, blo, bhi, m) ==
    IF m[3] = 0 THEN 0
    ELSE MatchedSize(a, b, alo, m[1], blo, m[2]) + m[3]
         + MatchedSize(a, b, m[1] + m[3], ahi, m[2] + m[3], bhi)

MatchedSize(a, b, alo, ahi, blo, bhi) ==
    MatchedAround(a, b, alo, ahi, blo, bhi,
                  find_longest_match(a, b, alo, ahi, blo, bhi))

Fraction(num, den) == [num |-> num, den |-> den]

\* _calculate_ratio(matches, length)
ratio(a, b) ==
    IF Len(a) + Len(b) = 0 THEN Fraction(1, 1)
    ELSE Fraction(2 * MatchedSize(a, b, 0, Len(a), 0, Len(b)), Len(a) + Len(b))

\* x < y on fractions with positive denominators
Less(x, y) == x.num * y.den < y.num * x.den

(***************************************************************************)
(* database.Graph: match_closest_node_alias, match_closest_node_name and   *)
(* match_closest_node_id.  A call is given the text and the cutoff (a      *)
(* fraction); its outcome is [out, node]: the exception raised, and the    *)
(* node returned (NoNode for None).                                        *)
(***************************************************************************)
Returned(n) == [out |-> NoExc, node |-> n]

\* the first node of ns, from index k, whose field value equals text
RECURSIVE FirstEqual(_, _, _, _)
FirstEqual(ns, vals, text, k) ==
    IF k > Len(ns) THEN NoNode
    ELSE IF vals[k] = text THEN ns[k]
    ELSE FirstEqual(ns, vals, text, k + 1)

RECURSIVE SimilarityScan(_, _, _, _, _)

\* the body of the loop: similarity is the ratio for the node at index k
ScanStep(ns, vals, text, k, best, similarity) ==
    IF Less(best.highest, similarity)
    THEN SimilarityScan(ns, vals, text, k + 1,
                        [node |-> ns[k], highest |-> similarity])
    ELSE SimilarityScan(ns, vals, text, k + 1, best)

\* for node in self.nodes: keep the node of the highest similarity so far
SimilarityScan(ns, vals, text, k, best) ==
    IF k > Len(ns) THEN best
    ELSE ScanStep(ns, vals, text, k, best, ratio(text, vals[k]))

\* if highest_similarity >= match_cutoff: return best_match, else None
AboveCutoff(best, cutoff) ==
    IF ~Less(best.highest, cutoff) THEN Returned(best.node) ELSE Returned(NoNode)

\* best_match = None; highest_similarity = 0; the loop; the cutoff
ClosestBySimilarity(ns, vals, text, cutoff) ==
    AboveCutoff(SimilarityScan(ns, vals, text, 1,
                               [node |-> NoNode, highest |-> Fraction(0, 1)]),
                cutoff)

\* the exact match found (or not), then the scan
ExactOrClosest(ns, vals, text, cutoff, exact) ==
    IF exact # NoNode THEN Returned(exact)
    ELSE ClosestBySimilarity(ns, vals, text, cutoff)

Aliases(ns) == [k \in 1..Len(ns) |-> NodePool[ns[k]].alias]
Names(ns) == [k \in 1..Len(ns) |-> NodePool[ns[k]].name]
IdTexts(ns) == [k \in 1..Len(ns) |-> IdText(NodePool[ns[k]].id)]

\* Graph.match_closest_node_alias(alias, match_cutoff); the node that
\* get_closest_nodes_alias returns is the first one whose alias equals alias
match_closest_node_alias(ns, alias, cutoff) ==
    ExactOrClosest(ns, Aliases(ns), alias, cutoff,
                   FirstEqual(ns, Aliases(ns), alias, 1))

\* Graph.match_closest_node_name(node_name, match_cutoff)
match_closest_node_name(ns, node_name, cutoff) ==
    ExactOrClosest(ns, Names(ns), node_name, cutoff,
                   FirstEqual(ns, Names(ns), node_name, 1))

\* node.id == node_id, for a str node_id: a UUID never equals a str
IdEquals(ns, node_id) ==
    [k \in 1..Len(ns) |->
        IF NodePool[ns[k]].id.kind = "str" THEN NodePool[ns[k]].id.text
        ELSE NoneStr]

\* text.startswith(prefix)
StartsWith(text, prefix) ==
    Len(prefix) <= Len(text) /\ SubSeq(text, 1, Len(prefix)) = prefix

\* [node for node in self.nodes if node.id.startswith(node_id)]
PrefixMatches(ns, node_id) ==
    SelectSeq(ns, LAMBDA n : StartsWith(NodePool[n].id.text, node_id))

\* min(prefix_matches, key=lambda n: len(n.id)): the first of the shortest
RECURSIVE ShortestId(_, _)
ShortestId(ms, best) ==
    IF ms = <<>> THEN best
    ELSE IF Len(NodePool[Head(ms)].id.text) < Len(NodePool[best].id.text)
         THEN ShortestId(Tail(ms), Head(ms))
    ELSE ShortestId(Tail(ms), best)

\* the prefix matches, then the similarity scan
PrefixOrClosest(ns, node_id, cutoff, prefix_matches) ==
    IF prefix_matches # <<>>
    THEN Returned(ShortestId(Tail(prefix_matches), Head(prefix_matches)))
    ELSE ClosestBySimilarity(ns, IdTexts(ns), node_id, cutoff)

\* after the loop of the exact match: node.id.startswith raises
\* AttributeError on the first node whose id is a UUID
IdAfterExact(ns, node_id, cutoff, exact) ==
    IF exact # NoNode THEN Returned(exact)
    ELSE IF \E k \in 1..Len(ns) : NodePool[ns[k]].id.kind # "str"
         THEN [out |-> Raise("AttributeError", "startswith", NoTok, -1),
               node |-> NoNode]
    ELSE PrefixOrClosest(ns, node_id, cutoff, PrefixMatches(ns, node_id))

\* Graph.match_closest_node_id(node_id, match_cutoff)
match_closest_node_id(ns, node_id, cutoff) ==
    IdAfterExact(ns, node_id, cutoff, FirstEqual(ns, IdEquals(ns, node_id), node_id, 1))

(***************************************************************************)
(* Matching: the graph holds up to MaxNodes of MatchObjs, the argument is  *)
(* a text and a cutoff, and the step is the call of one of the three       *)
(* functions.                                                              *)
(***************************************************************************)
MatchObjs == {1, 3, 7, 8}

MatchTexts ==
    {<<>>, <<"z">>, <<"a", "c">>, <<"b", "c", "a">>}
    \cup {NodePool[o].alias : o \in MatchObjs}
    \cup {NodePool[o].name : o \in MatchObjs}
    \cup {IdText(NodePool[o].id) : o \in MatchObjs}

MatchAlias ==
    /\ mode = "match"
    /\ qres = <<>>
    /\ qres' = <<[fn |-> "alias",
                 r |-> match_closest_node_alias(nodes, input.text, input.cutoff)]>>
    /\ UNCHANGED <<nodes, edges, last, okEdges, input, mode, parent>>

MatchName ==
    /\ mode = "match"
    /\ qres = <<>>
    /\ qres' = <<[fn |-> "name",
                 r |-> match_closest_node_name(nodes, input.text, input.cutoff)]>>
    /\ UNCHANGED <<nodes, edges, last, okEdges, input, mode, parent>>

MatchId ==
    /\ mode = "match"
    /\ qres = <<>>
    /\ qres' = <<[fn |-> "id",
                 r |-> match_closest_node_id(nodes, input.text, input.cutoff)]>>
    /\ UNCHANGED <<nodes, edges, last, okEdges, input, mode, parent>>

MatchInit ==
    /\ mode = "match"
    /\ nodes \in SeqsUpTo(MatchObjs, MaxNodes)
    /\ edges = <<>>
    /\ last = [op |-> "init", node |-> 0, present |-> FALSE, nedges |-> 0,
               nnodes |-> 0]
    /\ parent = [o \in Objs |-> NoNode]
    /\ okEdges = TRUE
    /\ input \in [text : MatchTexts,
                 \* match_cutoff: 0, the default 0.7, 1.0 and 1.1
                 cutoff : {Fraction(0, 1), Fraction(7, 10), Fraction(1, 1),
                           Fraction(11, 10)}]
    /\ qres = <<>>

MatchNext == MatchAlias \/ MatchName \/ MatchId

SpecMatch == MatchInit /\ [][MatchNext]_vars

(***************************************************************************)
(* jpickle_ex.py: the type-registry codec.                                 *)
(*                                                                         *)
(* A document is [maps, has_registry, registry].  maps lists the mappings  *)
(* (dicts) of the JSON tree in the order in which recurse_json calls the   *)
(* callback on them, the top-level mapping first; a mapping is             *)
(* [obj, typ, coll, data]: the values of its keys "py/object" and          *)
(* "py/type" (NoneStr for a missing key), the collection that holds it and *)
(* its other fields.  registry is the value of the key "REGISTRY", a set   *)
(* of entries [uid, path, base].  The classes of the loaded modules are    *)
(* LoadedClasses: [path, module, bases, self], bases the base categories   *)
(* the class is a subclass of and self the category the class itself is.   *)
(***************************************************************************)
Class(path, module, bases, self) ==
    [path |-> path, module |-> module, bases |-> bases, self |-> self]

\* n.N, n.E, n.B, n.G stand for nodedb's Node, Edge, BaseModel and Graph;
\* u.Rep and u.Lnk are a Node and an Edge subclass of a module u, u.Cfg and
\* u.Rex classes of u that are no BaseModel
LoadedClasses ==
    { Class(<<"n", ".", "N">>, <<"n">>, {"NODE", "BASEMODEL"}, "NODE"),
      Class(<<"n", ".", "E">>, <<"n">>, {"EDGE", "BASEMODEL"}, "EDGE"),
      Class(<<"n", ".", "B">>, <<"n">>, {"BASEMODEL"}, "BASEMODEL"),
      Class(<<"n", ".", "G">>, <<"n">>, {}, ""),
      Class(<<"u", ".", "R", "e", "p">>, <<"u">>, {"NODE", "BASEMODEL"}, ""),
      Class(<<"u", ".", "L", "n", "k">>, <<"u">>, {"EDGE", "BASEMODEL"}, ""),
      Class(<<"u", ".", "C", "f", "g">>, <<"u">>, {}, ""),
      Class(<<"u", ".", "R", "e", "x">>, <<"u">>, {}, "") }

\* utils.get_all_classes_from_loaded_modules().keys()
LoadedPaths == {c.path : c \in LoadedClasses}

\* utils.get_all_subclasses_of(base_cls), as paths
get_all_subclasses_of(base) ==
    {c.path : c \in {d \in LoadedClasses : base \in d.bases /\ d.self # base}}

\* utils.get_all_classes_from_specific_loaded_module(module_namespace)
NamespaceClasses(module_namespace) ==
    {c.path : c \in {d \in LoadedClasses : StartsWith(d.module, module_namespace)}}

\* the characters of a path in the order of their code points
CodeOrder ==
    <<".", "1", "2", "3", "4", "5", "6", "7", "8", "9", "B", "C", "E", "G", "L", "N", "Q", "R", "T", "X", "_",
      "e", "f", "g", "k", "n", "p", "u", "x">>

Code(c) == CHOOSE i \in 1..Len(CodeOrder) : CodeOrder[i] = c

\* x < y on str
RECURSIVE StrLess(_, _)
StrLess(x, y) ==
    IF y = <<>> THEN FALSE
    ELSE IF x = <<>> THEN TRUE
    ELSE IF Head(x) = Head(y) THEN StrLess(Tail(x), Tail(y))
    ELSE Code(Head(x)) < Code(Head(y))

\* heapq.nlargest(1, result): the largest (score, x) of the close matches
BestClose(close, score) ==
    IF close = {} THEN NoneStr
    ELSE CHOOSE x \in close : \A y \in close \ {x} :
             Less(score[y], score[x]) \/ (score[y] = score[x] /\ StrLess(y, x))

\* difflib.get_close_matches(word, possibilities, n=1, cutoff=0.7), given
\* the ratio of every possibility (seq1) and the word (seq2)
CloseMatch(possibilities, score) ==
    BestClose({x \in possibilities : ~Less(score[x], Fraction(7, 10))}, score)

\* fuzzy_type_match(type_path, known_types)
fuzzy_type_match(type_path, known_types) ==
    CloseMatch(known_types, [x \in known_types |-> ratio(x, type_path)])

\* find_type_fallback, lines 25-36: the namespace when no subclass is close
NamespaceAttempt(type_path, inherited_attempt) ==
    IF inherited_attempt # NoneStr THEN inherited_attempt
    ELSE fuzzy_type_match(type_path, NamespaceClasses(Split(type_path, ".")[1]))

\* find_type_fallback(type_path, base_model)
find_type_fallback(type_path, base_model) ==
    NamespaceAttempt(type_path,
                     fuzzy_type_match(type_path, get_all_subclasses_of(base_model)))

\* resolve_class_type(import_path): the path of the class found, NoneStr
\* for None; a class can be imported iff it is one of the loaded classes
resolve_class_type(import_path) ==
    IF import_path \in LoadedPaths THEN import_path
    ELSE find_type_fallback(import_path, "BASEMODEL")

\* serialize_phase2, lines 123-136: model_type.name for the class cls
ModelType(cls) ==
    IF cls = NoneStr THEN "NODE"
    ELSE IF \E c \in LoadedClasses : c.path = cls /\ "NODE" \in c.bases THEN "NODE"
    ELSE IF \E c \in LoadedClasses : c.path = cls /\ "EDGE" \in c.bases THEN "EDGE"
    ELSE IF \E c \in LoadedClasses : c.path = cls /\ "BASEMODEL" \in c.bases
         THEN "BASEMODEL"
    ELSE "NODE"

\* the callbacks, lines 67-72 and 109-114: the type key of a mapping
PickleType(d) ==
    IF d.obj # NoneStr THEN "py/object"
    ELSE IF d.typ # NoneStr THEN "py/type"
    ELSE "none"

\* d[pickle_type]
TypeValue(d) == IF d.obj # NoneStr THEN d.obj ELSE d.typ

\* d[pickle_type] = value
SetType(d, value) ==
    IF d.obj # NoneStr THEN [d EXCEPT !.obj = value] ELSE [d EXCEPT !.typ = value]

ExtractPrefix == <<"E", "X", "T", "R", "A", "C", "T", "_">>

\* "EXTRACT_" + str(uuid4()): the n-th identifier drawn differs from the
\* ones drawn before; a digit stands for the text of the UUID
Uid(n) == Append(ExtractPrefix, CodeOrder[n + 1])

\* a lookup that takes the identifier registered last, whatever its path
ReverseUid_Latest(reverse, original) ==
    IF reverse = {} THEN NoneStr
    ELSE (CHOOSE e \in reverse : \A f \in reverse : StrLess(f[2], e[2]) \/ f = e)[2]

\* reverse[original] if original in reverse, NoneStr otherwise
ReverseUid(reverse, original) ==
    IF \E e \in reverse : e[1] = original
    THEN (CHOOSE e \in reverse : e[1] = original)[2]
    ELSE NoneStr

\* serialize_phase2.callback, lines 122-141: a new registry entry for the
\* type value of d, whose class resolved to cls
Register(d, st, cls) ==
    [maps     |-> Append(st.maps, SetType(d, Uid(st.n))),
     reverse  |-> st.reverse \cup {<<TypeValue(d), Uid(st.n)>>},
     registry |-> st.registry \cup
                  {[uid |-> Uid(st.n), path |-> TypeValue(d), base |-> ModelType(cls)]},
     warnings |-> IF cls = NoneStr
                  THEN Append(st.warnings, [msg |-> "Could not resolve class",
                                            path |-> TypeValue(d), to |-> NoneStr])
                  ELSE st.warnings,
     n        |-> st.n + 1]

\* serialize_phase2.callback, lines 117-141: uid is reverse.get(original)
SerializeTyped(d, st, uid) ==
    IF uid # NoneStr THEN [st EXCEPT !.maps = Append(@, SetType(d, uid))]
    ELSE Register(d, st, resolve_class_type(TypeValue(d)))

\* serialize_phase2.callback(d), on the state of the closure
SerializeCallback(d, st) ==
    IF PickleType(d) = "none" THEN [st EXCEPT !.maps = Append(@, d)]
    ELSE SerializeTyped(d, st, ReverseUid(st.reverse, TypeValue(d)))

\* recurse_json(data, callback), from the k-th mapping
RECURSIVE SerializeFrom(_, _, _)
SerializeFrom(maps, k, st) ==
    IF k > Len(maps) THEN st
    ELSE SerializeFrom(maps, k + 1, SerializeCallback(maps[k], st))

Document(maps, has_registry, registry) ==
    [maps |-> maps, has_registry |-> has_registry, registry |-> registry]

\* lines 146-147: new_data["REGISTRY"] = registry
WithRegistry(st) ==
    [doc |-> Document(st.maps, TRUE, st.registry), out |-> NoExc,
     warnings |-> st.warnings]

\* serialize_phase2(data)
serialize_phase2(data) ==
    WithRegistry(SerializeFrom(data.maps, 1,
                               [maps |-> <<>>, reverse |-> {}, registry |-> {},
                                warnings |-> <<>>, n |-> 1]))

\* utils.validate_type_overrides(type_overrides, strict): an override is
\* invalid when its replacement is not the path of a loaded class; it is
\* refused in strict mode and warned about otherwise
validate_type_overrides(type_overrides, strict) ==
    IF \A o \in type_overrides : o[2] \in LoadedPaths
    THEN [out |-> NoExc, warnings |-> <<>>]
    ELSE IF strict
         THEN [out |-> Raise("ValueError", "Invalid type override", NoTok, -1),
               warnings |-> <<>>]
    ELSE [out |-> NoExc,
          warnings |-> <<[msg |-> "Invalid type override", path |-> NoneStr, to |-> NoneStr]>>]

\* A lenient decode that leaves the opaque key in an unresolved mapping
AfterFallback_KeepsKey(d, st, obj_path, strict_class_resolve, attempt) ==
    IF attempt # NoneStr
    THEN [st EXCEPT !.maps = Append(@, SetType(d, attempt)),
                    !.warnings = Append(@, [msg |-> "Fuzzy matched", path |-> obj_path,
                                              to |-> attempt])]
    ELSE IF strict_class_resolve
         THEN [st EXCEPT !.out = Raise("ValueError", "could not be found",
                                       Tok("PATH", obj_path), -1)]
    ELSE [st EXCEPT !.maps = Append(@, d),
                    !.warnings = Append(@, [msg |-> "could not be found",
                                              path |-> obj_path, to |-> NoneStr])]

\* deserialize_phase2.callback, lines 84-94: attempt is the fallback found
AfterFallback(d, st, obj_path, strict_class_resolve, attempt) ==
    IF attempt # NoneStr
    THEN [st EXCEPT !.maps = Append(@, SetType(d, attempt)),
                    !.warnings = Append(@, [msg |-> "Fuzzy matched", path |-> obj_path,
                                              to |-> attempt])]
    ELSE IF strict_class_resolve
         THEN [st EXCEPT !.out = Raise("ValueError", "could not be found",
                                       Tok("PATH", obj_path), -1)]
    ELSE [st EXCEPT !.maps = Append(@, SetType(d, obj_path)),
                    !.warnings = Append(@, [msg |-> "could not be found",
                                              path |-> obj_path, to |-> NoneStr])]

\* A decode that keeps a known path before it looks for an override
DeserializeEntry_KnownFirst(d, st, e, type_overrides, strict_class_resolve) ==
    IF e.path \in LoadedPaths
    THEN [st EXCEPT !.maps = Append(@, SetType(d, e.path))]
    ELSE IF \E o \in type_overrides : o[1] = e.path
         THEN [st EXCEPT !.maps =
                   Append(@, SetType(d, (CHOOSE o \in type_overrides : o[1] = e.path)[2]))]
    ELSE IF e.base \notin {"BASEMODEL", "NODE", "EDGE"}
         THEN [st EXCEPT !.out = Raise("TypeError", "issubclass", NoTok, -1)]
    ELSE AfterFallback(d, st, e.path, strict_class_resolve,
                       find_type_fallback(e.path, e.base))

\* deserialize_phase2.callback, lines 76-94: e is registry[uid]; without a
\* base model, issubclass in get_all_subclasses_of raises TypeError
DeserializeEntry(d, st, e, type_overrides, strict_class_resolve) ==
    IF \E o \in type_overrides : o[1] = e.path
    THEN [st EXCEPT !.maps =
              Append(@, SetType(d, (CHOOSE o \in type_overrides : o[1] = e.path)[2]))]
    ELSE IF e.path \in LoadedPaths
         THEN [st EXCEPT !.maps = Append(@, SetType(d, e.path))]
    ELSE IF e.base \notin {"BASEMODEL", "NODE", "EDGE"}
         THEN [st EXCEPT !.out = Raise("TypeError", "issubclass", NoTok, -1)]
    ELSE AfterFallback(d, st, e.path, strict_class_resolve,
                       find_type_fallback(e.path, e.base))

\* deserialize_phase2.callback(d)
DeserializeCallback(d, st, registry, type_overrides, strict_class_resolve) ==
    IF \/ PickleType(d) = "none"
       \/ ~StartsWith(TypeValue(d), ExtractPrefix)
       \/ \A e \in registry : e.uid # TypeValue(d)
    THEN [st EXCEPT !.maps = Append(@, d)]
    ELSE DeserializeEntry(d, st, CHOOSE e \in registry : e.uid = TypeValue(d),
                          type_overrides, strict_class_resolve)

\* recurse_json(data, callback), from the k-th mapping; an exception leaves
\* the mappings not yet visited as they are
RECURSIVE DeserializeFrom(_, _, _, _, _, _)
DeserializeFrom(maps, k, st, registry, type_overrides, strict_class_resolve) ==
    IF Failed(st) THEN [st EXCEPT !.maps = @ \o SubSeq(maps, k - 1, Len(maps))]
    ELSE IF k > Len(maps) THEN st
    ELSE DeserializeFrom(maps, k + 1,
                         DeserializeCallback(maps[k], st, registry, type_overrides,
                                             strict_class_resolve),
                         registry, type_overrides, strict_class_resolve)

\* line 64: data.pop("REGISTRY", {}), and the document the walk st leaves
Popped(st) ==
    [doc |-> Document(st.maps, FALSE, {}), out |-> st.out, warnings |-> st.warnings]

\* lines 64-97, after validate_type_overrides returned or raised v
AfterValidate(data, type_overrides, strict_class_resolve, v) ==
    IF Failed(v) THEN [doc |-> data, out |-> v.out, warnings |-> v.warnings]
    ELSE Popped(DeserializeFrom(data.maps, 1,
                                [maps |-> <<>>, out |-> NoExc, warnings |-> v.warnings],
                                IF data.has_registry THEN data.registry ELSE {},
                                type_overrides, strict_class_resolve))

\* deserialize_phase2(data, type_overrides, strict_class_resolve,
\*                    strict_typeoverrides)
deserialize_phase2(data, type_overrides, strict_class_resolve, strict_typeoverrides) ==
    AfterValidate(data, type_overrides, strict_class_resolve,
                  validate_type_overrides(type_overrides, strict_typeoverrides))

(***************************************************************************)
(* The codec at work: a document as jsonpickle.encode writes it is encoded *)
(* by serialize_phase2 (Graph.save) and the result decoded by              *)
(* deserialize_phase2 (Graph.load).                                        *)
(***************************************************************************)
MaxMappings == 3

Mapping(obj, typ, coll, data) ==
    [obj |-> obj, typ |-> typ, coll |-> coll, data |-> data]

\* the mappings below the top-level one: nodes and edges of loaded classes, a bare type
\* reference, a mapping without a type key, types that no loaded class has
\* (u.Rpe and u.Cfx are close to u.Rep and u.Cfg, x.Q to none), a mapping
\* with both type keys, and a type (u.Rexx) that is close to the Node
\* subclass u.Rep and closer to the class u.Rex
MappingPool ==
    << Mapping(<<"n", ".", "N">>, NoneStr, "nodes", "a"),
       Mapping(<<"u", ".", "R", "e", "p">>, NoneStr, "nodes", "b"),
       Mapping(<<"n", ".", "E">>, NoneStr, "edges", "c"),
       Mapping(<<"u", ".", "L", "n", "k">>, NoneStr, "edges", "d"),
       Mapping(NoneStr, <<"u", ".", "R", "e", "p">>, "nodes", "e"),
       Mapping(NoneStr, NoneStr, "nodes", "f"),
       Mapping(<<"u", ".", "R", "p", "e">>, NoneStr, "nodes", "g"),
       Mapping(<<"x", ".", "Q">>, NoneStr, "nodes", "h"),
       Mapping(<<"u", ".", "C", "f", "x">>, NoneStr, "edges", "i"),
       Mapping(<<"n", ".", "N">>, <<"n", ".", "E">>, "nodes", "j"),
       Mapping(<<"u", ".", "R", "e", "x", "x">>, NoneStr, "nodes", "k") >>

\* the override maps a caller of load supplies: none, or a replacement for
\* the path u.Rep of a loaded class and for the path u.Rpe of none
OverrideMaps ==
    {{}, {<<(<<"u", ".", "R", "e", "p">>), (<<"u", ".", "L", "n", "k">>)>>,
          <<(<<"u", ".", "R", "p", "e">>), (<<"n", ".", "E">>)>>}}

\* serialize_phase2(input)
SerializePhase2 ==
    /\ mode = "codec"
    /\ qres = <<>>
    /\ qres' = <<serialize_phase2(input)>>
    /\ UNCHANGED <<nodes, edges, last, okEdges, input, mode, parent>>

\* deserialize_phase2 on the document that serialize_phase2 returned
DeserializePhase2 ==
    /\ mode = "codec"
    /\ Len(qres) = 1
    /\ \E type_overrides \in OverrideMaps, strict \in BOOLEAN :
          qres' = Append(qres,
                         [type_overrides |-> type_overrides,
                          strict_class_resolve |-> strict,
                          r |-> deserialize_phase2(qres[1].doc, type_overrides,
                                                   strict, TRUE)])
    /\ UNCHANGED <<nodes, edges, last, okEdges, input, mode, parent>>

CodecInit ==
    /\ mode = "codec"
    /\ nodes = <<>>
    /\ edges = <<>>
    /\ last = [op |-> "init", node |-> 0, present |-> FALSE, nedges |-> 0,
               nnodes |-> 0]
    /\ parent = [o \in Objs |-> NoNode]
    /\ okEdges = TRUE
    /\ input \in
          {Document(<<Mapping(<<"n", ".", "G">>, NoneStr, "top", "graph")>>
                    \o [k \in 1..Len(s) |-> MappingPool[s[k]]], FALSE, {}) :
               s \in SeqsUpTo(1..Len(MappingPool), MaxMappings)}
    /\ qres = <<>>

CodecNext == SerializePhase2 \/ DeserializePhase2

SpecCodec == CodecInit /\ [][CodecNext]_vars

(***************************************************************************)
(* Claims about the graph.                                                 *)
(***************************************************************************)
JustRemoved == last.op = "remove_node" /\ last.present

NoEdgeReferences(n) ==
    \A i \in 1..Len(edges) : edges[i].node_a # n /\ edges[i].node_b # n

\* C1 as stated: after remove_node(n) of an added node n,
\* get_node_by_id(n.id) returns None and no edge has n as an endpoint.
C1_Original ==
    JustRemoved =>
        /\ get_node_by_id(nodes, NodePool[last.node].id) = NoNode
        /\ NoEdgeReferences(last.node)

\* C1 amended: after remove_node(n) of an added node n, get_node_by_id(n.id)
\* never returns n; it returns None unless another node still in the graph
\* has the same id text, and then it returns the first such node; no edge
\* has n as an endpoint.
C1_RemovedNodeIsGone ==
    JustRemoved =>
        LET n == last.node
            found == get_node_by_id(nodes, NodePool[n].id)
            sameId == {i \in 1..Len(nodes) :
                          IdText(NodePool[nodes[i]].id) = IdText(NodePool[n].id)}
        IN /\ found # n
           /\ n \notin Range(nodes)
           /\ (sameId = {}) => found = NoNode
           /\ (sameId # {}) =>
                 found = nodes[CHOOSE i \in sameId : \A j \in sameId : i <= j]
           /\ NoEdgeReferences(n)

\* C1 witness: a node that had an incident edge has been
\* removed and no node with its id is left.
C1_Witness ==
    /\ JustRemoved
    /\ last.nedges > Len(edges)
    /\ nodes # <<>>
    /\ get_node_by_id(nodes, NodePool[last.node].id) = NoNode

\* C2: if every add_edge was called with both endpoints in nodes, every
\* edge has both endpoints in nodes.
C2_ReferentialIntegrity ==
    okEdges =>
        \A i \in 1..Len(edges) :
            edges[i].node_a \in Range(nodes) /\ edges[i].node_b \in Range(nodes)

\* C2 witness: remove_node has pruned an edge of a graph built with valid
\* add_edge calls only, and an edge is left.
C2_Witness ==
    /\ okEdges
    /\ JustRemoved
    /\ last.nedges > Len(edges)
    /\ edges # <<>>

\* the step is a call of remove_node
RemoveStep == last'.op = "remove_node"

\* what a call remove_node(n) leaves: the other nodes and the edges between
\* other nodes, in their order, and the parent of every node object
RemoveKeepsTheRest(n) ==
    /\ nodes' = SelectSeq(nodes, LAMBDA x : x # n)
    /\ n \notin Range(nodes')
    /\ edges' = SelectSeq(edges, LAMBDA e : e.node_a # n /\ e.node_b # n)
    /\ \A c \in Objs : parent'[c] = parent[c]

\* C18 as stated: remove_node(n) removes every occurrence of n from nodes,
\* keeps every other node and every edge with neither endpoint n, in their
\* order, leaves the parent references as they are, and changes neither
\* nodes nor edges when n is not in the graph.
C18_Original ==
    [][RemoveStep =>
          /\ RemoveKeepsTheRest(last'.node)
          /\ last'.node \notin Range(nodes) => (nodes' = nodes /\ edges' = edges)]_vars

\* C18 amended: remove_node(n) removes every occurrence of n from nodes,
\* keeps every other node and every edge with neither endpoint n, in their
\* order, and leaves the parent references as they are; when n is not in
\* the graph, nodes is unchanged and the edges that have n as an endpoint
\* are removed all the same, so that edges is unchanged only if no edge
\* refers to n.
C18_RemoveNodeKeepsTheRest ==
    [][RemoveStep =>
          /\ RemoveKeepsTheRest(last'.node)
          /\ last'.node \notin Range(nodes) =>
                /\ nodes' = nodes
                /\ (\A i \in 1..Len(edges) :
                       edges[i].node_a # last'.node /\ edges[i].node_b # last'.node)
                   <=> edges' = edges]_vars

\* C18 witness: a node that was added twice and has a child in the graph
\* was removed; one of its edges went, another edge stayed, and the child
\* still has it as its parent
C18_Witness ==
    /\ JustRemoved
    /\ last.nnodes >= Len(nodes) + 2
    /\ last.nedges > Len(edges)
    /\ edges # <<>>
    /\ \E c \in Range(nodes) : parent[c] = last.node

(***************************************************************************)
(* Claims about the query engine.                                          *)
(***************************************************************************)
Ran == qres # <<>>
R == qres[1]

ConsumedAll == R.parsed /\ R.i = Len(R.tokens)

Match(field, value) == <<"MATCH", field, <<"=">>, value>>

\* C4: "a=1 && b=2" tokenizes and parses without error to
\* AND(MATCH(a,'=','1'), MATCH(b,'=','2')), consuming all tokens.
C4_DoubledAmpersandParses ==
    (Ran /\ R.query = Q_AndDoubled) =>
        /\ ConsumedAll
        /\ R.ast = <<"and", Match(<<"a">>, <<"1">>), Match(<<"b">>, <<"2">>)>>

\* the AST that the grammar  expr := term (OR term)*, term := atom (AND atom)*
\* gives the chain with the operators ops, both levels grouping to the left
RECURSIVE TermLoop(_, _, _)
TermLoop(ops, left, k) ==
    IF k <= Len(ops) /\ ops[k] = "AND"
    THEN TermLoop(ops, <<"and", left, ChainMatch(k + 1)>>, k + 1)
    ELSE [ast |-> left, k |-> k]

RECURSIVE ExprLoop(_, _, _)
ExprLoop(ops, left, k) ==
    IF k <= Len(ops)
    THEN LET t == TermLoop(ops, ChainMatch(k + 1), k + 1)
         IN ExprLoop(ops, <<"or", left, t.ast>>, t.k)
    ELSE left

GrammarAst(ops) ==
    LET t == TermLoop(ops, ChainMatch(1), 1) IN ExprLoop(ops, t.ast, t.k)

\* the chains of C5 with AND written as the single "&" the tokenizer knows:
\* AND binds tighter than OR, equal operators group to the left
ChainsFollowGrammar ==
    Ran => \A ops \in OpSeqs :
               R.query = ChainText(ops) =>
                   ConsumedAll /\ R.ast = GrammarAst(ops)

\* C5: every unparenthesised chain of matches joined by AND and OR parses
\* with AND binding tighter than OR and equal operators grouping to the
\* left; in particular "a=1 || b=2 && c=3" is
\* OR(MATCH(a), AND(MATCH(b), MATCH(c))).
C5_AndBindsTighter ==
    /\ ChainsFollowGrammar
    /\ (Ran /\ R.query = Q_OrAndDoubled) =>
          /\ ConsumedAll
          /\ R.ast = <<"or", Match(<<"a">>, <<"1">>),
                       <<"and", Match(<<"b">>, <<"2">>), Match(<<"c">>, <<"3">>)>>>>

\* the number of LPAREN tokens still open at the end of the tokens
RECURSIVE OpenParens(_, _)
OpenParens(tokens, depth) ==
    IF tokens = <<>> THEN depth
    ELSE IF Head(tokens).kind = "LPAREN" THEN OpenParens(Tail(tokens), depth + 1)
    ELSE IF Head(tokens).kind = "RPAREN" /\ depth > 0
         THEN OpenParens(Tail(tokens), depth - 1)
    ELSE OpenParens(Tail(tokens), depth)

\* C6: a query with an opening parenthesis that is never closed, or with
\* tokens left after a complete expression, raises a syntax error and
\* returns no result.
C6_UnclosedOrTrailingIsSyntaxError ==
    (Ran /\ R.tokenized
         /\ (OpenParens(R.tokens, 0) > 0 \/ (R.parsed /\ R.i # Len(R.tokens)))) =>
        R.out.exc = "SyntaxError" /\ R.result = <<>>

\* a field name with no operator after it, or an operator or literal with no
\* field name before it
MalformedMatch(tokens) ==
    \E k \in 1..Len(tokens) :
        \/ /\ tokens[k].kind = "IDENT"
           /\ (k = Len(tokens) \/ tokens[k + 1].kind \notin {"EQ", "NEQ"})
        \/ /\ tokens[k].kind \in {"EQ", "NEQ"}
           /\ (k = 1 \/ tokens[k - 1].kind # "IDENT")

\* C7: a malformed match makes parsing fail with a syntax error that names
\* the offending token and its position, and no other kind of error escapes
\* from the tokenizer or the parser.
C7_MalformedMatchIsSyntaxError ==
    Ran =>
        /\ (R.tokenized /\ MalformedMatch(R.tokens)) =>
              /\ R.out.exc = "SyntaxError"
              /\ R.out.tok # NoTok
              /\ R.out.pos >= 0
        /\ ~R.parsed => R.out.exc = "SyntaxError"

\* re.compile(pattern) raises re.error
ReInvalid(p, v) == ReInvalidTop(p, ReTop(p, v))

\* re.search(pattern, value) is not None, for a valid pattern
ReSearch(p, v) == ReTop(p, v).ends # {}

\* the truth of an AST on a node as the claim defines it
RECURSIVE Holds(_, _)
Holds(ast, o) ==
    IF ast[1] = "MATCH"
    THEN /\ GetAttr(o, ast[2]) # NoneStr
         /\ IF ast[3] = <<"=">> THEN ReSearch(ast[4], GetAttr(o, ast[2]))
            ELSE ~ReSearch(ast[4], GetAttr(o, ast[2]))
    ELSE IF ast[1] = "or" THEN Holds(ast[2], o) \/ Holds(ast[3], o)
    ELSE Holds(ast[2], o) /\ Holds(ast[3], o)

RECURSIVE NodesWhere(_, _)
NodesWhere(ast, ns) ==
    IF ns = <<>> THEN <<>>
    ELSE (IF Holds(ast, Head(ns)) THEN <<Head(ns)>> ELSE <<>>)
         \o NodesWhere(ast, Tail(ns))

\* C8: find_nodes_by_query returns, in insertion order, exactly the nodes on
\* which the AST is true (MATCH false on an absent field, '=' an unanchored
\* search, '!=' its negation); "name=^Repo.*" on RepoA, RepoB, Other returns
\* RepoA and RepoB.
C8_QueryReturnsMatchingNodes ==
    Ran =>
        /\ (ConsumedAll /\ R.out.exc = "none") => R.result = NodesWhere(R.ast, nodes)
        /\ (R.query = Q_NameRepo /\ nodes = <<4, 5, 6>>) =>
              R.out.exc = "none" /\ R.result = <<4, 5>>

\* C8 witness: the query of the claim has run on RepoA, RepoB, Other
C8_Witness ==
    /\ Ran /\ R.query = Q_NameRepo /\ nodes = <<4, 5, 6>>
    /\ R.result = <<4, 5>>

\* the MATCH nodes of an AST whose pattern re.compile rejects
RECURSIVE InvalidMatches(_)
InvalidMatches(ast) ==
    IF ast[1] = "MATCH"
    THEN IF ReInvalid(ast[4], <<>>) THEN {<<ast[2], ast[4]>>} ELSE {}
    ELSE InvalidMatches(ast[2]) \cup InvalidMatches(ast[3])

InvalidPatternRaised ==
    /\ R.out.exc = "ValueError"
    /\ R.out.msg = "Invalid regex"
    /\ \E m \in InvalidMatches(R.ast) : R.out.tok.value = m[2]

\* C9 as stated: a query with an invalid pattern fails with the
\* invalid-pattern error on every graph.
C9_Original ==
    (Ran /\ ConsumedAll /\ InvalidMatches(R.ast) # {}) => InvalidPatternRaised

\* C9 amended: a query with an invalid pattern fails with the invalid-pattern
\* error exactly when some node of the graph has the field of a MATCH with
\* an invalid pattern, whatever the other operand of an enclosing AND/OR
\* is; otherwise the call returns.
C9_InvalidPatternRaisesWhenFieldPresent ==
    (Ran /\ ConsumedAll) =>
        LET reached == \E m \in InvalidMatches(R.ast) :
                           \E k \in 1..Len(nodes) : GetAttr(nodes[k], m[1]) # NoneStr
        IN /\ reached => InvalidPatternRaised
           /\ ~reached => R.out.exc = "none"

\* C9 witness: the left operand of an OR is true on the first node and the
\* right operand has an invalid pattern; the call raised
C9_Witness ==
    /\ Ran /\ R.query = Q_OrBadRight /\ nodes = <<4, 5, 6>>
    /\ R.out.exc = "ValueError"

\* the parenthesis depth at offset p of a right-hand side that starts at
\* offset from
RECURSIVE DepthAt(_, _, _)
DepthAt(q, from, p) ==
    IF p <= from THEN 0
    ELSE IF q[p] = "(" THEN DepthAt(q, from, p - 1) + 1
    ELSE IF q[p] = ")" /\ DepthAt(q, from, p - 1) > 0 THEN DepthAt(q, from, p - 1) - 1
    ELSE DepthAt(q, from, p - 1)

\* the offsets of the "&", "||" and ")" at depth 0 of that right-hand side
Terminators(q, from) ==
    {p \in from..(Len(q) - 1) :
        /\ DepthAt(q, from, p) = 0
        /\ \/ q[p + 1] \in {"&", ")"}
           \/ q[p + 1] = "|" /\ CharAt(q, p + 1) = "|"}

\* the first of them, the end of the input when there is none
Terminator(q, from) ==
    IF Terminators(q, from) = {} THEN Len(q)
    ELSE CHOOSE p \in Terminators(q, from) : \A r \in Terminators(q, from) : p <= r

\* the offsets at which an identifier starts that only whitespace, "&" and
\* parentheses precede and that "=" or "!=" follows directly
MatchStarts(q) ==
    {p \in 0..(Len(q) - 1) :
        /\ q[p + 1] \in Letters
        /\ \A j \in 1..p : q[j] \in {" ", "&", "(", ")"}
        /\ \/ CharAt(q, RunEnd(q, p, Letters \cup Digits)) = "="
           \/ /\ CharAt(q, RunEnd(q, p, Letters \cup Digits)) = "!"
              /\ CharAt(q, RunEnd(q, p, Letters \cup Digits) + 1) = "="}

\* the tokens of the characters before the identifier, one per "&", "(", ")"
RECURSIVE LeadTokens(_)
LeadTokens(lead) ==
    IF lead = <<>> THEN <<>>
    ELSE IF Head(lead) = " " THEN LeadTokens(Tail(lead))
    ELSE <<Tok(IF Head(lead) = "&" THEN "AND"
               ELSE IF Head(lead) = "(" THEN "LPAREN" ELSE "RPAREN",
               <<Head(lead)>>)>> \o LeadTokens(Tail(lead))

\* the tokens of the query whose identifier starts at p and ends at e, with
\* the operator up to o and the right-hand side up to stop, given the
\* tokenizer's result rest on the text from stop on
MatchTokens(q, p, e, o, stop, rest) ==
    /\ R.tokens = LeadTokens(Slice(q, 0, p))
                  \o <<Tok("IDENT", Slice(q, p, e)),
                       Tok(IF o = e + 1 THEN "EQ" ELSE "NEQ", Slice(q, e, o)),
                       Tok("LITERAL", Strip(Slice(q, o, stop)))>>
                  \o rest.tokens
    /\ R.tokenized = ~Failed(rest)
    /\ stop < Len(q) => /\ rest.tokens # <<>>
                        /\ rest.tokens[1].kind \in {"AND", "OR", "RPAREN"}

MatchTokensAt(q, p, e, o) ==
    MatchTokens(q, p, e, o, Terminator(q, o),
                smart_tokenize(Slice(q, Terminator(q, o), Len(q))))

\* every match of token_re consumes at least one character
Advances(q) ==
    \A p \in 0..(Len(q) - 1) :
        TokenMatch(q, p).kind # "NOMATCH" => TokenMatch(q, p).end > p

\* C16: when an identifier is directly followed by "=" or "!=", the
\* tokenizer emits exactly IDENT, EQ or NEQ, LITERAL, where the literal is
\* the text up to the first "&", "||" or ")" at parenthesis depth 0, or the
\* end of the input, with surrounding whitespace trimmed; operator
\* characters inside parentheses of the literal do not end it; tokenizing
\* continues at the terminating character; every call of the tokenizer
\* ends, with the tokens or with SyntaxError, each step consuming input.
C16_RhsIsOneLiteral ==
    Ran =>
        /\ \A p \in MatchStarts(R.query) :
              MatchTokensAt(R.query, p, RunEnd(R.query, p, Letters \cup Digits),
                            IF CharAt(R.query, RunEnd(R.query, p, Letters \cup Digits)) = "="
                            THEN RunEnd(R.query, p, Letters \cup Digits) + 1
                            ELSE RunEnd(R.query, p, Letters \cup Digits) + 2)
        /\ Advances(R.query)
        /\ ~R.tokenized => R.out.exc = "SyntaxError"

\* C16 witness: the literal of the first match holds "&" and "||" inside
\* parentheses, is trimmed, ends at the "&" at depth 0, and the tokenizer
\* went on to a second match
C16_Witness ==
    /\ Ran /\ R.query = Q_ParenLiteral /\ R.tokenized
    /\ R.tokens = <<Tok("IDENT", <<"a">>), Tok("EQ", <<"=">>),
                    Tok("LITERAL", <<"(", "1", "&", "a", "|", "|", "1", ")">>),
                    Tok("AND", <<"&">>),
                    Tok("IDENT", <<"a">>), Tok("NEQ", <<"!", "=">>),
                    Tok("LITERAL", <<"1">>)>>

(***************************************************************************)
(* Claims about closest matching.                                          *)
(***************************************************************************)
Matched == mode = "match" /\ qres # <<>>

\* what the call did
MR == qres[1]

\* the texts the function fn compares the query with, per node of the graph
FieldTexts(fn) ==
    IF fn = "alias" THEN Aliases(nodes)
    ELSE IF fn = "name" THEN Names(nodes)
    ELSE IdTexts(nodes)

ExactAt(fn) == {k \in 1..Len(nodes) : FieldTexts(fn)[k] = input.text}

\* when some node has the field equal to the query, the call of fn returns
\* the first such node
ExactWins(fn) ==
    (Matched /\ MR.fn = fn /\ ExactAt(fn) # {}) =>
        /\ MR.r.out.exc = "none"
        /\ \E k \in ExactAt(fn) :
              /\ MR.r.node = nodes[k]
              /\ \A j \in ExactAt(fn) : k <= j

\* the part of C10 about aliases and names: the exact match is returned for
\* every cutoff
ExactAliasAndNameWin == ExactWins("alias") /\ ExactWins("name")

\* C10: each of match_closest_node_alias, match_closest_node_name and
\* match_closest_node_id returns the first node whose field equals the
\* query (for ids: whose id has the query as its textual form, whether the
\* id was auto-assigned or supplied), for every cutoff, also above 1.0.
C10_ExactMatchWins == ExactWins("alias") /\ ExactWins("name") /\ ExactWins("id")

\* the similarity ratios of the query with the field of each node
Ratios(fn) ==
    [k \in 1..Len(nodes) |-> ratio(input.text, FieldTexts(fn)[k])]

\* the first node of the highest ratio
BestAt(rs, k) ==
    /\ \A j \in 1..Len(rs) : ~Less(rs[k], rs[j])
    /\ \A j \in 1..(k - 1) : Less(rs[j], rs[k])

\* with no exact match, the call of fn returns None when every ratio is
\* below the cutoff, and else the first node of the highest ratio
ScanReturnsBest(fn, rs) ==
    (Matched /\ MR.fn = fn /\ ExactAt(fn) = {}) =>
        /\ MR.r.out.exc = "none"
        /\ IF \A k \in 1..Len(rs) : Less(rs[k], input.cutoff)
           THEN MR.r.node = NoNode
           ELSE \E k \in 1..Len(rs) : BestAt(rs, k) /\ MR.r.node = nodes[k]

\* the part of C11 that the code keeps: with a cutoff above 0, the statement
\* holds for aliases and names, and for ids when every id is a str and none
\* has the query as a prefix
ScanReturnsBestAboveZero ==
    input.cutoff.num > 0 =>
        /\ ScanReturnsBest("alias", Ratios("alias"))
        /\ ScanReturnsBest("name", Ratios("name"))
        /\ ( /\ \A k \in 1..Len(nodes) : NodePool[nodes[k]].id.kind = "str"
             /\ PrefixMatches(nodes, input.text) = <<>> )
           => ScanReturnsBest("id", Ratios("id"))

\* C11: for alias, name and id matching with no exact match, the call
\* returns None whenever the maximum similarity ratio between the query and
\* any node's field is strictly below the cutoff, and otherwise the node of
\* the maximum ratio, the first-encountered one on ties.
C11_ScanReturnsBest ==
    /\ ScanReturnsBest("alias", Ratios("alias"))
    /\ ScanReturnsBest("name", Ratios("name"))
    /\ ScanReturnsBest("id", Ratios("id"))

\* the nodes whose id, as text, has the query as a prefix
PrefixAt == {k \in 1..Len(nodes) : StartsWith(IdTexts(nodes)[k], input.text)}

\* the first of the nodes of PrefixAt with the shortest id
ShortestPrefixAt(k) ==
    /\ k \in PrefixAt
    /\ \A j \in PrefixAt : Len(IdTexts(nodes)[k]) <= Len(IdTexts(nodes)[j])
    /\ \A j \in PrefixAt : j < k => Len(IdTexts(nodes)[k]) < Len(IdTexts(nodes)[j])

\* C17: match_closest_node_id with no exact match and at least one node id
\* that has the query as a literal prefix returns the node of the shortest
\* such id, the first in insertion order among equally short ones, whatever
\* the cutoff and the similarity ratios.
C17_ShortestPrefixWins ==
    (Matched /\ MR.fn = "id" /\ ExactAt("id") = {} /\ PrefixAt # {}) =>
        /\ MR.r.out.exc = "none"
        /\ \E k \in PrefixAt : ShortestPrefixAt(k) /\ MR.r.node = nodes[k]

\* the part of C17 that the code keeps: the statement holds of the graphs
\* in which every node id is a str
ShortestPrefixWinsOnStrIds ==
    (\A k \in 1..Len(nodes) : NodePool[nodes[k]].id.kind = "str")
        => C17_ShortestPrefixWins

(***************************************************************************)
(* Claims about the codec.                                                 *)
(***************************************************************************)
RoundTripped == mode = "codec" /\ Len(qres) = 2

Encoded == qres[1]

Restored == qres[2].r

\* every type identifier of the document names a loaded class
AllKnown(doc) ==
    \A k \in 1..Len(doc.maps) :
        PickleType(doc.maps[k]) # "none" => TypeValue(doc.maps[k]) \in LoadedPaths

CountOf(doc, coll) == Cardinality({k \in 1..Len(doc.maps) : doc.maps[k].coll = coll})

\* C3: for a document whose type identifiers all name known types, and no
\* override, decoding the encoded document gives the original document
\* back: every type value restored, no REGISTRY key, as many nodes and
\* edges, with equal fields.
C3_RoundTrip ==
    (RoundTripped /\ AllKnown(input) /\ qres[2].type_overrides = {}) =>
        /\ Restored.out.exc = "none"
        /\ Restored.doc = input
        /\ ~Restored.doc.has_registry
        /\ CountOf(Restored.doc, "nodes") = CountOf(input, "nodes")
        /\ CountOf(Restored.doc, "edges") = CountOf(input, "edges")
        /\ \A k \in 1..Len(input.maps) : Restored.doc.maps[k] = input.maps[k]

\* C3 witness: a document with two mappings of one known type and one of
\* another was encoded to opaque keys, two of them equal, and decoded back
C3_Witness ==
    /\ RoundTripped /\ AllKnown(input) /\ qres[2].type_overrides = {}
    /\ Len(input.maps) = 4
    /\ Encoded.doc.has_registry /\ Cardinality(Encoded.doc.registry) = 3
    /\ \A k \in 1..4 : StartsWith(TypeValue(Encoded.doc.maps[k]), ExtractPrefix)
    /\ TypeValue(Encoded.doc.maps[2]) = TypeValue(Encoded.doc.maps[4])
    /\ Restored.doc = input

\* the registry entry that the encoder wrote for the k-th mapping
EntryOf(k) ==
    CHOOSE e \in Encoded.doc.registry : e.uid = TypeValue(Encoded.doc.maps[k])

\* the k-th mapping carries an opaque key of the registry
Keyed(k) ==
    /\ PickleType(Encoded.doc.maps[k]) # "none"
    /\ \E e \in Encoded.doc.registry : e.uid = TypeValue(Encoded.doc.maps[k])

Overridden(path) == \E o \in qres[2].type_overrides : o[1] = path

\* the k-th mapping's key stands for a path that no loaded class has, that
\* no override replaces and that has no fuzzy candidate within the cutoff
Unresolvable(k) ==
    /\ Keyed(k)
    /\ EntryOf(k).path \notin LoadedPaths
    /\ ~Overridden(EntryOf(k).path)
    /\ find_type_fallback(EntryOf(k).path, EntryOf(k).base) = NoneStr

UnresolvableAt == {k \in 1..Len(input.maps) : Unresolvable(k)}

\* C12: decoding a document whose registry maps an opaque key to an
\* unresolvable path, with no override and no fuzzy candidate within the
\* cutoff: in lenient mode a warning is emitted for the path, the mapping's
\* type value becomes the path, and every mapping of the document is
\* decoded (no mapping keeps an opaque key); in strict mode ValueError is
\* raised and names the path.
C12_UnresolvedWarnsOrRaises ==
    (RoundTripped /\ UnresolvableAt # {}) =>
        IF qres[2].strict_class_resolve
        THEN /\ Restored.out.exc = "ValueError"
             /\ \E k \in UnresolvableAt :
                   /\ Restored.out.tok.value = EntryOf(k).path
                   /\ \A j \in UnresolvableAt : k <= j
        ELSE /\ Restored.out.exc = "none"
             /\ Len(Restored.doc.maps) = Len(input.maps)
             /\ \A k \in UnresolvableAt :
                   /\ TypeValue(Restored.doc.maps[k]) = EntryOf(k).path
                   /\ \E w \in Range(Restored.warnings) :
                         w.msg = "could not be found" /\ w.path = EntryOf(k).path
             /\ \A k \in 1..Len(input.maps) :
                   Keyed(k) =>
                       ~StartsWith(TypeValue(Restored.doc.maps[k]), ExtractPrefix)

\* C12 witness: a lenient decode met an unresolvable path, warned, left the
\* path in the mapping and went on to decode a later mapping of a known type
C12_Witness ==
    /\ RoundTripped /\ ~qres[2].strict_class_resolve
    /\ Restored.out.exc = "none"
    /\ \E k \in UnresolvableAt :
          /\ TypeValue(Restored.doc.maps[k]) = <<"x", ".", "Q">>
          /\ \E j \in (k + 1)..Len(input.maps) :
                /\ Keyed(j)
                /\ TypeValue(Restored.doc.maps[j]) \in LoadedPaths
    /\ \E w \in Range(Restored.warnings) : w.path = <<"x", ".", "Q">>

\* the callback was called on the k-th mapping and returned
Visited(k) ==
    Restored.out.exc = "none" \/ \A j \in UnresolvableAt : k < j

\* the candidates of S whose similarity with path meets the cutoff 0.7
Candidates(S, path) == {x \in S : ~Less(ratio(x, path), Fraction(7, 10))}

\* x is a closest candidate of S for path
Closest(S, path, x) ==
    /\ x \in Candidates(S, path)
    /\ \A y \in Candidates(S, path) : ~Less(ratio(x, path), ratio(y, path))

\* the decoder substituted to for path and warned about it
Substituted(k, path, to) ==
    /\ TypeValue(Restored.doc.maps[k]) = to
    /\ \E w \in Range(Restored.warnings) : w.path = path /\ w.to = to

\* the fuzzy fallback for the entry e of the k-th mapping: the subtypes of
\* the base category first, the namespace only when no subtype is close
FallbackOrder(k, e, subtypes, namespace) ==
    IF Candidates(subtypes, e.path) # {}
    THEN \E x \in subtypes : Closest(subtypes, e.path, x) /\ Substituted(k, e.path, x)
    ELSE Candidates(namespace, e.path) # {} =>
             \E x \in namespace :
                 Closest(namespace, e.path, x) /\ Substituted(k, e.path, x)

\* the order of precedence for the entry e of the k-th mapping
Precedence(k, e) ==
    IF Overridden(e.path)
    THEN \E o \in qres[2].type_overrides :
             o[1] = e.path /\ TypeValue(Restored.doc.maps[k]) = o[2]
    ELSE IF e.path \in LoadedPaths
         THEN /\ TypeValue(Restored.doc.maps[k]) = e.path
              /\ \A w \in Range(Restored.warnings) : w.path # e.path
    ELSE FallbackOrder(k, e, get_all_subclasses_of(e.base),
                       NamespaceClasses(Split(e.path, ".")[1]))

\* C14: during decode, each mapping whose type value is an opaque key of
\* the registry is resolved in a fixed order: an override for the
\* registered path is used, whether or not the path is known or has a fuzzy
\* candidate; otherwise a known path is kept, with no warning; otherwise
\* the closest name among the subtypes of the recorded base category is
\* chosen, and the types of the same top-level namespace only when no
\* subtype meets the cutoff; a fuzzy substitution emits a warning that
\* names the original and the substitute.
C14_ResolutionPrecedence ==
    RoundTripped =>
        \A k \in 1..Len(input.maps) :
            (Keyed(k) /\ Visited(k)) => Precedence(k, EntryOf(k))

\* C14 witness: one decode used the override for the known path u.Rep and
\* for the path u.Rpe that has a fuzzy candidate, kept the known path n.G,
\* and chose the subtype u.Rep for u.Rexx although u.Rex of the namespace is
\* closer
C14_Witness ==
    /\ RoundTripped /\ Restored.out.exc = "none"
    /\ [k \in 1..Len(input.maps) |-> TypeValue(input.maps[k])]
         = << <<"n", ".", "G">>, <<"u", ".", "R", "e", "p">>,
              <<"u", ".", "R", "p", "e">>, <<"u", ".", "R", "e", "x", "x">> >>
    /\ [k \in 1..Len(input.maps) |-> TypeValue(Restored.doc.maps[k])]
         = << <<"n", ".", "G">>, <<"u", ".", "L", "n", "k">>,
              <<"n", ".", "E">>, <<"u", ".", "R", "e", "p">> >>
    /\ Less(ratio(<<"u", ".", "R", "e", "p">>, <<"u", ".", "R", "e", "x", "x">>),
            ratio(<<"u", ".", "R", "e", "x">>, <<"u", ".", "R", "e", "x", "x">>))
    /\ Len(Restored.warnings) = 1

Serialized == mode = "codec" /\ qres # <<>>

\* the values of the type-identifier keys of the document
Identifiers(doc) ==
    {doc.maps[k].obj : k \in {j \in 1..Len(doc.maps) : doc.maps[j].obj # NoneStr}}
    \cup {doc.maps[k].typ : k \in {j \in 1..Len(doc.maps) : doc.maps[j].typ # NoneStr}}

\* v is an opaque key of the registry of the encoded document
Opaque(v) ==
    StartsWith(v, ExtractPrefix) /\ \E e \in Encoded.doc.registry : e.uid = v

\* the type-identifier keys of the k-th mapping carry opaque keys, and the
\* other fields are the original ones
KeysReplaced(d, o) ==
    /\ d.obj # NoneStr => Opaque(o.obj)
    /\ d.typ # NoneStr => Opaque(o.typ)
    /\ d.obj = NoneStr => o.obj = NoneStr
    /\ d.typ = NoneStr => o.typ = NoneStr
    /\ o.coll = d.coll /\ o.data = d.data

\* one registry entry per identifier of the document, with the identifier
\* as its path and a base category, NODE for a type that does not resolve
RegistryOf(doc, registry) ==
    /\ {e.path : e \in registry} = Identifiers(doc)
    /\ Cardinality(registry) = Cardinality(Identifiers(doc))
    /\ \A e \in registry :
          /\ e.base \in {"BASEMODEL", "NODE", "EDGE"}
          /\ resolve_class_type(e.path) = NoneStr => e.base = "NODE"

\* C15: after serialize_phase2 on any document, every mapping that carried
\* a type-identifier key carries an opaque key; two mappings carry the same
\* opaque key iff they carried the same identifier; the registry under
\* REGISTRY has exactly one entry per distinct identifier of the document,
\* whose path is that identifier and whose base is one of BASEMODEL, NODE,
\* EDGE (NODE when the type cannot be resolved); no non-type field of the
\* document is changed.
C15_EncodeReplacesEveryIdentifier ==
    Serialized =>
        /\ Encoded.out.exc = "none"
        /\ Len(Encoded.doc.maps) = Len(input.maps)
        /\ \A k \in 1..Len(input.maps) :
              KeysReplaced(input.maps[k], Encoded.doc.maps[k])
        /\ \A j, k \in 1..Len(input.maps) :
              (PickleType(input.maps[j]) # "none" /\ PickleType(input.maps[k]) # "none")
              => ( TypeValue(Encoded.doc.maps[j]) = TypeValue(Encoded.doc.maps[k])
                   <=> TypeValue(input.maps[j]) = TypeValue(input.maps[k]) )
        /\ Encoded.doc.has_registry
        /\ RegistryOf(input, Encoded.doc.registry)

\* no mapping of the document carries both type-identifier keys
OneKeyEach(doc) ==
    \A k \in 1..Len(doc.maps) : doc.maps[k].obj = NoneStr \/ doc.maps[k].typ = NoneStr

\* the part of C15 that the code keeps: the statement holds of every
\* document in which no mapping carries both type-identifier keys
EncodeReplacesOneKeyEach ==
    OneKeyEach(input) => C15_EncodeReplacesEveryIdentifier

(***************************************************************************)
(* Claims about node creation.                                             *)
(***************************************************************************)
Created == mode = "create" /\ qres # <<>>

\* C13: a Node created with an explicitly supplied id, a str or a UUID
\* object, has exactly that id after creation; an id is generated only when
\* none is supplied.
C13_SuppliedIdKept ==
    Created =>
        IF input.id # NoneId THEN qres[1].id = input.id
        ELSE qres[1].id = UuidId(input.fresh)

\* the part of C13 that the code keeps: a non-empty str id is the node's
\* id, and with no id the node has the generated one
SuppliedStrIdKept ==
    Created =>
        /\ (input.id.kind = "str" /\ input.id.text # <<>>) => qres[1].id = input.id
        /\ input.id = NoneId => qres[1].id = UuidId(input.fresh)

=============================================================================
